---- MODULE Spec2Model ----
(***************************************************************************)
(* Card-pool acquisition and answer verification of the MTG quiz app:      *)
(* the Scryfall service layer (query builder, sampler, distractor          *)
(* generator, name cache, matcher), the round/session state machine of     *)
(* CardGuessingGame and the localStorage persistence it writes through.    *)
(*                                                                         *)
(* Card names and typed text are sequences of characters; a character is   *)
(* a one-element string ("E_ACUTE" and "e_acute" name the code points      *)
(* U+00C9 and U+00E9).                                                     *)
(***************************************************************************)
EXTENDS Integers, Sequences, FiniteSets, TLC

\* ------------------------------------------------------------------ bounds

\* Longest text typed into the guess box in the matcher specification.
MaxLen == 3

\* -------------------------------------------------------------- characters

UpperLetters == <<"A","B","C","D","E","F","G","H","I","J","K","L","M",
                  "N","O","P","Q","R","S","T","U","V","W","X","Y","Z","E_ACUTE">>

LowerLetters == <<"a","b","c","d","e","f","g","h","i","j","k","l","m",
                  "n","o","p","q","r","s","t","u","v","w","x","y","z","e_acute">>

Digits == {"0","1","2","3","4","5","6","7","8","9"}

\* The characters matched by \s that occur in the model.
Whitespace == {" ", "\t"}

\* [a-z]
AsciiLower == {LowerLetters[i] : i \in 1..26}

Range(s) == {s[i] : i \in DOMAIN s}

\* String.prototype.toLowerCase, one character.
CharToLower(ch) ==
  IF \E i \in DOMAIN UpperLetters : UpperLetters[i] = ch
  THEN LowerLetters[CHOOSE i \in DOMAIN UpperLetters : UpperLetters[i] = ch]
  ELSE ch

\* String.prototype.toUpperCase, one character.
CharToUpper(ch) ==
  IF \E i \in DOMAIN LowerLetters : LowerLetters[i] = ch
  THEN UpperLetters[CHOOSE i \in DOMAIN LowerLetters : LowerLetters[i] = ch]
  ELSE ch

toLowerCase(s) == [i \in DOMAIN s |-> CharToLower(s[i])]

toUpperCase(s) == [i \in DOMAIN s |-> CharToUpper(s[i])]

\* .replace(/[^a-z0-9\s]/g, '')
KeepChar(ch) == ch \in AsciiLower \cup Digits \cup Whitespace

RemoveSpecial(s) == SelectSeq(s, KeepChar)

\* .replace(/\s+/g, ' '): every maximal run of whitespace becomes one space.
RECURSIVE CollapseSpaces(_)
CollapseSpaces(s) ==
  IF s = <<>> THEN <<>>
  ELSE IF Head(s) \in Whitespace
       THEN IF Len(s) > 1 /\ s[2] \in Whitespace
            THEN CollapseSpaces(Tail(s))
            ELSE <<" ">> \o CollapseSpaces(Tail(s))
       ELSE <<Head(s)>> \o CollapseSpaces(Tail(s))

RECURSIVE TrimStart(_)
TrimStart(s) ==
  IF s # <<>> /\ Head(s) \in Whitespace THEN TrimStart(Tail(s)) ELSE s

RECURSIVE TrimEnd(_)
TrimEnd(s) ==
  IF s # <<>> /\ s[Len(s)] \in Whitespace
  THEN TrimEnd(SubSeq(s, 1, Len(s) - 1))
  ELSE s

\* String.prototype.trim
trim(s) == TrimEnd(TrimStart(s))

\* Mutant of normalizeCardName: the final trim() is dropped.
normalizeCardNameNoTrim(name) ==
  CollapseSpaces(RemoveSpecial(toLowerCase(name)))

normalizeCardName(name) ==
  trim(CollapseSpaces(RemoveSpecial(toLowerCase(name))))

cardNamesMatch(guess, correctName) ==
  normalizeCardName(guess) = normalizeCardName(correctName)

\* ------------------------------------------------------------ card corpus

LightningBolt == <<"L","i","g","h","t","n","i","n","g"," ","B","o","l","t">>

Counterspell == <<"C","o","u","n","t","e","r","s","p","e","l","l">>

GiantGrowth == <<"G","i","a","n","t"," ","G","r","o","w","t","h">>

SolRing == <<"S","o","l"," ","R","i","n","g">>

PathToExile == <<"P","a","t","h"," ","t","o"," ","E","x","i","l","e">>

JaceBeleren == <<"J","a","c","e",","," ","B","e","l","e","r","e","n">>

AjaniCat == <<"A","j","a","n","i","'","s"," ","C","a","t">>

\* null, for a ScryfallCard | null
NoCard == [id |-> 0, name |-> <<>>, set |-> ""]

Card(id, name, set) == [id |-> id, name |-> name, set |-> set]

\* The remote corpus, in the order the service lists it.  "neo" and "dmu"
\* share a reprint; "zzz" is a set code without cards.
AllCards ==
  << Card(1, JaceBeleren, "neo"), Card(2, LightningBolt, "neo"),
     Card(3, SolRing, "neo"), Card(4, AjaniCat, "dmu"), Card(5, SolRing, "dmu") >>

SetCodes == {"neo", "dmu", "zzz"}

\* Number of cards on a full page of the remote service.
PageSize == 2

\* Longest selection of sets.
MaxSets == 3

\* Arrays of distinct set codes: the selections the setup view produces.
FilterSets ==
  {f \in UNION {[1..n -> SetCodes] : n \in 0..MaxSets} :
     \A i, j \in DOMAIN f : i # j => f[i] # f[j]}

\* ---------------------------------------------------------- query builder

RECURSIVE JoinOr(_)
JoinOr(terms) ==
  IF Len(terms) = 0 THEN <<>>
  ELSE IF Len(terms) = 1 THEN terms[1]
  ELSE terms[1] \o <<" OR ">> \o JoinOr(Tail(terms))

\* Mutant of buildMultipleSetQuery: no sentinel, and the terms are joined
\* without the OR operator.
RECURSIVE JoinBlank(_)
JoinBlank(terms) ==
  IF Len(terms) = 0 THEN <<>> ELSE terms[1] \o JoinBlank(Tail(terms))

buildMultipleSetQueryNoOr(setCodes) ==
  JoinBlank([i \in DOMAIN setCodes |-> <<"set:", setCodes[i]>>])

\* The query is a sequence of tokens of the service's query language.
buildMultipleSetQuery(setCodes) ==
  IF Len(setCodes) = 0 THEN <<"set:", "___NONE___">>
  ELSE IF Len(setCodes) = 1 THEN <<"set:", setCodes[1]>>
  ELSE <<"(">> \o JoinOr([i \in DOMAIN setCodes |-> <<"set:", setCodes[i]>>])
       \o <<")">>

\* ----------------------------------------------------- remote service

\* The service's reading of a query: alternatives separated by OR, each a
\* conjunction of set:<code> filters; an empty query filters nothing.
RECURSIVE SplitOr(_)
SplitOr(q) ==
  IF \E k \in DOMAIN q : q[k] = " OR "
  THEN LET k == CHOOSE k \in DOMAIN q :
                  q[k] = " OR " /\ \A m \in 1..(k - 1) : q[m] # " OR "
       IN <<SubSeq(q, 1, k - 1)>> \o SplitOr(SubSeq(q, k + 1, Len(q)))
  ELSE <<q>>

IsParen(t) == t \in {"(", ")"}

NotParen(t) == ~IsParen(t)

GroupMatches(g, card) ==
  /\ Len(g) % 2 = 0
  /\ \A i \in DOMAIN g :
       IF i % 2 = 1 THEN g[i] = "set:" ELSE g[i] = card.set

QueryMatches(q, card) ==
  LET groups == SplitOr(SelectSeq(q, NotParen))
  IN \E k \in DOMAIN groups : GroupMatches(groups[k], card)

RECURSIVE FilterCards(_, _)
FilterCards(cards, q) ==
  IF cards = <<>> THEN <<>>
  ELSE IF QueryMatches(q, Head(cards))
       THEN <<Head(cards)>> \o FilterCards(Tail(cards), q)
       ELSE FilterCards(Tail(cards), q)

Matching(q) == FilterCards(AllCards, q)

Min(a, b) == IF a < b THEN a ELSE b

SearchResponse(total, more, data) ==
  [object |-> "list", total_cards |-> total, has_more |-> more, data |-> data]

NoPage == SearchResponse(0, FALSE, <<>>)

\* Page `page` of the list the service holds for q.
ListPage(q, page) ==
  LET m == Matching(q)
  IN SearchResponse(Len(m), page * PageSize < Len(m),
                    SubSeq(m, (page - 1) * PageSize + 1,
                           Min(page * PageSize, Len(m))))

PageExists(q, page) ==
  page = 1 \/ (page >= 1 /\ (page - 1) * PageSize < Len(Matching(q)))

NoErrorObject == [object |-> "none", status |-> 0, code |-> "", details |-> ""]

NotFoundObject ==
  [object |-> "error", status |-> 404, code |-> "not_found",
   details |-> "No cards found"]

\* What one HTTP exchange can come to: no response at all ("network"), a
\* response with a JSON body ("response": an error object or a list), or a
\* response whose body is not JSON ("unparsable").
HttpOutcome(kind, ok, status, err, list) ==
  [kind |-> kind, ok |-> ok, status |-> status, error |-> err, list |-> list]

\* No exchange took place.
NoOutcome == HttpOutcome("none", FALSE, 0, NoErrorObject, NoPage)

SearchOutcomes(q, page) ==
  {HttpOutcome("network", FALSE, 0, NoErrorObject, NoPage),
   HttpOutcome("response", FALSE, 404, NotFoundObject, NoPage)}
  \cup (IF PageExists(q, page)
        THEN {HttpOutcome("response", TRUE, 200, NoErrorObject, ListPage(q, page))}
        ELSE {})

\* The HTTP statuses of the responses makeRequest is tried on.
HttpStatuses == {200, 201, 400, 404, 429, 500, 502, 503}

\* response.ok
IsOk(status) == status \in 200..299

ErrorObjects ==
  {NotFoundObject,
   [object |-> "error", status |-> 429, code |-> "rate_limited", details |-> "Too many requests"],
   [object |-> "error", status |-> 400, code |-> "bad_request", details |-> "Bad query"]}

HttpOutcomes ==
  {HttpOutcome("network", FALSE, 0, NoErrorObject, NoPage)}
  \cup {HttpOutcome("response", IsOk(st), st, e, NoPage) : st \in HttpStatuses, e \in ErrorObjects}
  \cup {HttpOutcome("response", IsOk(st), st, NoErrorObject, ListPage(<<"set:", code>>, 1)) : st \in HttpStatuses, code \in SetCodes}
  \cup {HttpOutcome("unparsable", IsOk(st), st, NoErrorObject, NoPage) : st \in HttpStatuses}

\* ------------------------------------------------------------ HTTP client

NoError == [name |-> "none", status |-> 0, code |-> "", details |-> ""]

\* new ScryfallApiError(message, status): the string form of the constructor.
ScryfallApiError(message, status) ==
  [name |-> "ScryfallApiError", status |-> status, code |-> "unknown",
   details |-> message]

\* new ScryfallApiError(data): the structured form.
ScryfallApiErrorOf(data) ==
  [name |-> "ScryfallApiError", status |-> data.status, code |-> data.code,
   details |-> data.details]

\* A settled promise of a search response.
Resolved(list) == [threw |-> FALSE, value |-> list, error |-> NoError]

Rejected(err) == [threw |-> TRUE, value |-> NoPage, error |-> err]

\* makeRequest with the status left out of the error of line 67.
makeRequestLosingStatus(outcome) ==
  IF outcome.kind \in {"network", "unparsable"}
  THEN Rejected(ScryfallApiError("Network error", 500))
  ELSE IF ~outcome.ok
       THEN IF outcome.error.object = "error"
            THEN Rejected(ScryfallApiErrorOf(outcome.error))
            ELSE Rejected(ScryfallApiError("HTTP error", 500))
       ELSE Resolved(outcome.list)

\* Lines 53-86.  fetch rejecting, and response.json() rejecting on a body
\* that is not JSON (line 60, before response.ok is looked at), both end in
\* the catch of lines 80-82.
makeRequest(outcome) ==
  IF outcome.kind \in {"network", "unparsable"}
  THEN Rejected(ScryfallApiError("Network error", 500))
  ELSE IF ~outcome.ok
       THEN IF outcome.error.object = "error"
            THEN Rejected(ScryfallApiErrorOf(outcome.error))
            ELSE Rejected(ScryfallApiError("HTTP error", outcome.status))
       ELSE Resolved(outcome.list)

\* --------------------------------------------------------------- search

\* Whether searchCardsMultipleSets sends a request at all.
SearchSendsRequest(setCodes) == Len(setCodes) # 0

Request(by, q, page) == [by |-> by, query |-> q, page |-> page]

\* searchCardsMultipleSets once its request, if any, has come to `outcome`.
searchCardsMultipleSets(setCodes, outcome) ==
  IF Len(setCodes) = 0
  THEN Resolved(SearchResponse(0, FALSE, <<>>))
  ELSE LET r == makeRequest(outcome)
       IN IF r.threw
          THEN Rejected(ScryfallApiError("Failed to search for cards", 500))
          ELSE r

\* ---------------------------------------------------------------- sampler

CeilDiv(a, b) == (a + b - 1) \div b

\* Mutant of TotalPages: one page more than the whole pages.
TotalPagesCountingPartial(firstPage) ==
  (firstPage.total_cards \div Len(firstPage.data)) + 1

\* Math.ceil(total_cards / cardsPerPage)
TotalPages(firstPage) == CeilDiv(firstPage.total_cards, Len(firstPage.data))

\* Math.floor(Math.random() * totalPages) + 1.  With no card on page 1 the
\* quotient is not finite, and neither is the page: -1 stands for it.
RandomPages(firstPage) ==
  IF Len(firstPage.data) = 0 THEN {-1}
  ELSE 1..TotalPages(firstPage)

\* Mutant of RandomIndexes: an index one past the end can be drawn.
RandomIndexesPastEnd(page) == 1..(Len(page.data) + 1)

\* Math.floor(Math.random() * data.length), as a position from 1.
RandomIndexes(page) == 1..Len(page.data)

\* data[i]: undefined (no card) outside the array.
ElementAt(data, i) == IF i \in DOMAIN data THEN data[i] ELSE NoCard

CardResult(card) == [threw |-> FALSE, card |-> card, error |-> NoError]

CardError(err) == [threw |-> TRUE, card |-> NoCard, error |-> err]

NoResult == [threw |-> FALSE, card |-> NoCard, error |-> NoError]

\* ------------------------------------------------------------- name cache

\* The characters of the model in the order of their UTF-16 code units.
CodeUnits ==
  <<"\t", " ", "!", "'", ",", "-",
    "0","1","2","3","4","5","6","7","8","9",
    "A","B","C","D","E","F","G","H","I","J","K","L","M",
    "N","O","P","Q","R","S","T","U","V","W","X","Y","Z",
    "a","b","c","d","e","f","g","h","i","j","k","l","m",
    "n","o","p","q","r","s","t","u","v","w","x","y","z",
    "E_ACUTE", "e_acute">>

CodeUnit(ch) == CHOOSE i \in DOMAIN CodeUnits : CodeUnits[i] = ch

\* a < b for strings: the order of Array.prototype.sort without comparator.
RECURSIVE LessString(_, _)
LessString(a, b) ==
  IF b = <<>> THEN FALSE
  ELSE IF a = <<>> THEN TRUE
  ELSE IF Head(a) = Head(b) THEN LessString(Tail(a), Tail(b))
  ELSE CodeUnit(Head(a)) < CodeUnit(Head(b))

\* Mutant of SortNames: the names in descending order.
RECURSIVE NamesDescending(_)
NamesDescending(names) ==
  IF names = {} THEN <<>>
  ELSE LET last == CHOOSE n \in names :
                     \A m \in names \ {n} : LessString(m, n)
       IN <<last>> \o NamesDescending(names \ {last})

\* Array.from(allCardNames).sort()
RECURSIVE SortNames(_)
SortNames(names) ==
  IF names = {} THEN <<>>
  ELSE LET first == CHOOSE n \in names :
                      \A m \in names \ {n} : LessString(n, m)
       IN <<first>> \o SortNames(names \ {first})

\* The set codes of the model in the order of their code units.
SortedCodes == <<"dmu", "neo", "zzz">>

CodeRank(code) == CHOOSE i \in DOMAIN SortedCodes : SortedCodes[i] = code

\* setCodes.sort(): the array itself, put in order.
RECURSIVE SortCodes(_)
SortCodes(setCodes) ==
  IF setCodes = <<>> THEN <<>>
  ELSE LET least == CHOOSE i \in DOMAIN setCodes :
                      \A j \in DOMAIN setCodes :
                        CodeRank(setCodes[i]) <= CodeRank(setCodes[j])
       IN <<setCodes[least]>> \o
          SortCodes([i \in 1..(Len(setCodes) - 1) |->
                       IF i < least THEN setCodes[i] ELSE setCodes[i + 1]])

\* .join(',')
RECURSIVE JoinComma(_)
JoinComma(setCodes) ==
  IF setCodes = <<>> THEN <<>>
  ELSE IF Len(setCodes) = 1 THEN <<Head(setCodes)>>
  ELSE <<Head(setCodes), ",">> \o JoinComma(Tail(setCodes))

\* let cardNamesCache = {} (line 267): no key.
EmptyCache == [key \in {} |-> <<>>]

\* cardNamesCache[key] = names
CacheWith(cache, key, names) ==
  [k \in DOMAIN cache \cup {key} |-> IF k = key THEN names ELSE cache[k]]

\* Line 316: cardNamesCache[currentCacheKey] = ..., on the object that holds
\* the entries of the keys cached before.
CacheStore(cache, key, names) == CacheWith(cache, key, names)

\* total_cards > 175: the page size of the remote service.
FullPage == PageSize

\* The texts typed for suggestions: one too short, one matching a name of both
\* sets, one matching a name of "neo" only.
SuggestQueries == { <<"s">>, <<"s", "o">>, <<"l", "i">> }

\* The selections suggestions are asked for.
SuggestSelections ==
  { <<>>, <<"neo">>, <<"dmu">>, <<"neo", "dmu">>, <<"dmu", "neo">>,
    <<"zzz">> }

\* Line 281, for every selection: setCodes.sort() and its .join(',').
SortedSelections == [setCodes \in SuggestSelections |-> SortCodes(setCodes)]

CacheKeys == [setCodes \in SuggestSelections |-> JoinComma(SortCodes(setCodes))]

\* The calls of getCardNameAutocompleteFromSets that can overlap.
Callers == 1..2

NamesOf(data) == {data[i].name : i \in DOMAIN data}

\* failedPage: the page whose fetch threw, 0 while none did.
SuggestState(pc, query, setCodes, key, names, served, result) ==
  [pc |-> pc, query |-> query, setCodes |-> setCodes,
   currentCacheKey |-> key, allCardNames |-> names, served |-> served,
   result |-> result, failedPage |-> 0]

SuggestIdle == SuggestState("idle", <<>>, <<>>, <<>>, {}, "nothing", <<>>)

\* ------------------------------------------------- suggestion filter

\* .slice(0, 8) on line 335: the number of names a scoped answer keeps.
SuggestionLimit == 8

\* String.prototype.includes
includes(s, t) ==
  \E k \in 0..(Len(s) - Len(t)) : SubSeq(s, k + 1, k + Len(t)) = t

\* String.prototype.startsWith
startsWith(s, t) == Len(t) <= Len(s) /\ SubSeq(s, 1, Len(t)) = t

\* The characters of the model in the order of their primary collation
\* weights: white space, punctuation, digits, letters.
CollationOrder ==
  <<"\t", " ", "-", ",", "!", "'",
    "0","1","2","3","4","5","6","7","8","9",
    "a","b","c","d","e","f","g","h","i","j","k","l","m",
    "n","o","p","q","r","s","t","u","v","w","x","y","z">>

\* The weight of a character at a level of the collation: its base letter,
\* then its accent, then its case (lower case first).
CollationWeight(ch, level) ==
  LET lower == CharToLower(ch)
      base == IF lower = "e_acute" THEN "e" ELSE lower
  IN IF level = 1
     THEN CHOOSE i \in DOMAIN CollationOrder : CollationOrder[i] = base
     ELSE IF level = 2 THEN (IF lower = base THEN 0 ELSE 1)
     ELSE (IF ch = lower THEN 0 ELSE 1)

RECURSIVE CompareAtLevel(_, _, _)
CompareAtLevel(a, b, level) ==
  IF a = <<>> /\ b = <<>> THEN 0
  ELSE IF a = <<>> THEN -1
  ELSE IF b = <<>> THEN 1
  ELSE LET wa == CollationWeight(Head(a), level)
           wb == CollationWeight(Head(b), level)
       IN IF wa < wb THEN -1
          ELSE IF wa > wb THEN 1
          ELSE CompareAtLevel(Tail(a), Tail(b), level)

\* String.prototype.localeCompare: base letters decide, then accents, then
\* case.
localeCompare(a, b) ==
  IF CompareAtLevel(a, b, 1) # 0 THEN CompareAtLevel(a, b, 1)
  ELSE IF CompareAtLevel(a, b, 2) # 0 THEN CompareAtLevel(a, b, 2)
  ELSE CompareAtLevel(a, b, 3)

\* The comparator without its first two tests.
SuggestionCompareIgnoringPrefix(queryLower, a, b) == localeCompare(a, b)

\* Lines 327-334: the comparator of the sort.
SuggestionCompare(queryLower, a, b) ==
  LET aStarts == startsWith(toLowerCase(a), queryLower)
      bStarts == startsWith(toLowerCase(b), queryLower)
  IN IF aStarts /\ ~bStarts THEN -1
     ELSE IF ~aStarts /\ bStarts THEN 1
     ELSE localeCompare(a, b)

\* Array.prototype.sort with that comparator: a stable sort.
RECURSIVE SortSuggestions(_, _)
SortSuggestions(names, queryLower) ==
  IF names = <<>> THEN <<>>
  ELSE LET x == names[Len(names)]
           front == SortSuggestions(SubSeq(names, 1, Len(names) - 1), queryLower)
           kept == {k \in DOMAIN front : SuggestionCompare(queryLower, front[k], x) <= 0}
           at == IF kept = {} THEN 0 ELSE CHOOSE k \in kept : \A m \in kept : m <= k
       IN SubSeq(front, 1, at) \o <<x>> \o SubSeq(front, at + 1, Len(front))

\* .filter(name => name.toLowerCase().includes(queryLower))
RECURSIVE FilterNames(_, _)
FilterNames(names, queryLower) ==
  IF names = <<>> THEN <<>>
  ELSE IF includes(toLowerCase(Head(names)), queryLower)
       THEN <<Head(names)>> \o FilterNames(Tail(names), queryLower)
       ELSE FilterNames(Tail(names), queryLower)

\* .slice(0, n)
SliceFirst(names, n) == SubSeq(names, 1, Min(n, Len(names)))

\* The matchingNames of lines 321-335 without its filter.
matchingNamesUnfiltered(cached, query) == SliceFirst(cached, SuggestionLimit)

\* Lines 321-335: the names served from the cached list.
matchingNames(cached, query) ==
  LET queryLower == toLowerCase(query)
  IN SliceFirst(SortSuggestions(FilterNames(cached, queryLower), queryLower), SuggestionLimit)

\* The names the remote service knows beyond the cards of the model's sets.
OtherNames == {<<"S", "o", d>> : d \in {"1", "2", "3", "4", "5", "6", "7", "8", "9"}}

\* What the request to /cards/autocomplete can come to: no usable response,
\* or the catalog of the names the service matches with the text.
AutocompleteCatalogs ==
  LET known == {AllCards[i].name : i \in DOMAIN AllCards} \cup OtherNames
  IN [query \in SuggestQueries |->
        SortNames({n \in known : includes(toLowerCase(n), toLowerCase(query))})]

AutocompleteOutcomes(query) ==
  {[ok |-> FALSE, data |-> <<>>], [ok |-> TRUE, data |-> AutocompleteCatalogs[query]]}

\* getCardNameAutocomplete without its catch: the error leaves the function.
getCardNameAutocompleteRethrowing(query, outcome) ==
  IF Len(query) < 2 THEN [threw |-> FALSE, names |-> <<>>]
  ELSE IF outcome.ok THEN [threw |-> FALSE, names |-> outcome.data]
  ELSE [threw |-> TRUE, names |-> <<>>]

\* Lines 249-264: the promise resolves with the data of the response as it
\* came, or with [] on any error.
getCardNameAutocomplete(query, outcome) ==
  IF Len(query) < 2 THEN [threw |-> FALSE, names |-> <<>>]
  ELSE IF outcome.ok THEN [threw |-> FALSE, names |-> outcome.data]
  ELSE [threw |-> FALSE, names |-> <<>>]

\* One evaluation of the filter: the cached list and the text it is given,
\* and the names it yields.
FilterState(pc, cached, query, result) == [pc |-> pc, cached |-> cached, query |-> query, result |-> result]

FilterIdle == FilterState("idle", <<>>, <<>>, <<>>)

\* Names a cached list can hold: names that start with "so" in either case,
\* with an accent, a hyphen or a blank, names that hold it further on, and
\* one that does not hold it.
FilterPool ==
  { <<"S","o">>, <<"S","o","l">>, <<"s","o","l">>, <<"S","o","l","e">>,
    <<"S","o","l","e_acute">>, <<"S","O","S">>, <<"S","o","-","1">>,
    <<"S","o"," ","2">>, <<"A","s","o">>, <<"a","S","O">>, <<"O","s","o">>,
    <<"B","o","b">> }

\* The texts the filter is given.
FilterQueries == { <<"s","o">>, <<"S","O">>, <<"o","l">> }

\* One call of makeRequest: what its HTTP exchange comes to, and how the
\* promise settles.
HttpState(pc, outcome, result) == [pc |-> pc, outcome |-> outcome, result |-> result]

HttpIdle == HttpState("idle", NoOutcome, Resolved(NoPage))

\* const REQUEST_DELAY = 100 (line 19), in ms.
REQUEST_DELAY == 100

\* The operations that can overlap, the requests each of them makes one
\* after another, and the time the clock is followed to.
Operations == 1..2

MaxRequests == 2

MaxTime == 300

\* The step of the clock.
TickMs == REQUEST_DELAY \div 2

\* One operation: idle between its requests, in the delay of makeRequest
\* (line 57) until the time `due`, or awaiting fetch (line 59); left: the
\* requests it has still to make.
TimedState(pc, due, left) == [pc |-> pc, due |-> due, left |-> left]

\* ------------------------------------------------------------ state

VARIABLES
  requests,   \* the requests sent to the remote service, in order
  sampler,    \* one call of getRandomCardFromSets
  search,     \* one call of searchCardsMultipleSets (performSearch)
  matcher,    \* one call of cardNamesMatch
  mc,         \* one call of generateMultipleChoiceOptions
  selectedSets,     \* App: the selected set codes
  isGameActive,     \* App: the game view is shown
  inputMode,        \* the inputMode prop of the game
  storage,          \* the localStorage item 'mtg-quiz-game-state'
  gameState,        \* CardGuessingGame: gameState
  guessInput,       \* CardGuessingGame: guessInput
  selectedChoice,   \* CardGuessingGame: selectedChoice
  isStateRestored,  \* CardGuessingGame: isStateRestored
  loading,          \* the call of loadNewCard in flight
  regen,            \* the call of regenerateOptions in flight
  cardNamesCache,   \* scryfall: cardNamesCache
  cacheKey,         \* scryfall: cacheKey
  suggest,          \* the calls of getCardNameAutocompleteFromSets
  filterCall,       \* one evaluation of the filter of lines 321-335
  httpCall,         \* one call of makeRequest
  loadCall,         \* one call of loadGameState
  now,              \* the time, in ms
  timed,            \* the operations that call makeRequest, one after another
  sent              \* the requests handed to fetch, with their times

serviceVars == <<requests>>

samplerVars == <<sampler, search>>

matcherVars == <<matcher>>

optionVars == <<mc>>

appVars == <<selectedSets, isGameActive, inputMode, storage>>

componentVars ==
  <<gameState, guessInput, selectedChoice, isStateRestored, loading, regen>>

gameVars == <<appVars, componentVars>>

cacheVars == <<cardNamesCache, cacheKey, suggest>>

timeVars == <<now, timed, sent>>

unitVars == <<filterCall, httpCall, loadCall, timeVars>>

vars == <<requests, sampler, search, matcher, mc, gameVars, cacheVars, unitVars>>

\* ------------------------------------------ getRandomCardFromSets, stepwise

\* pc: the await the call is at; fetched: the pages that have arrived;
\* firstPage, randomPage, randomPageResponse: the locals of the call;
\* outcome: what the HTTP exchange of its last request came to.
SamplerState(pc, setCodes, fetched, firstPage, randomPage, response, result) ==
  [pc |-> pc, setCodes |-> setCodes, fetched |-> fetched,
   firstPage |-> firstPage, randomPage |-> randomPage,
   randomPageResponse |-> response, result |-> result, outcome |-> NoOutcome]

SamplerIdle == SamplerState("idle", <<>>, 0, NoPage, 0, NoPage, NoResult)

SamplerFail(sm, fetched, firstPage, response, err) ==
  SamplerState("done", sm.setCodes, fetched, firstPage, sm.randomPage,
               response, CardError(err))

\* Mutant of getRandomCardFromSetsCall: the selection is not checked before
\* page 1 is requested.
getRandomCardFromSetsCallUnguarded ==
  /\ sampler.pc = "start"
  /\ sampler' = [sampler EXCEPT !.pc = "page1"]
  /\ requests' = Append(requests,
       Request("getRandomCardFromSets",
               buildMultipleSetQuery(sampler.setCodes), 1))
  /\ UNCHANGED <<search, matcherVars, unitVars, optionVars, gameVars, cacheVars>>

\* Lines 190-196: the guard on the selection, then the request for page 1.
getRandomCardFromSetsCall ==
  /\ sampler.pc = "start"
  /\ IF Len(sampler.setCodes) = 0
     THEN /\ sampler' = SamplerFail(sampler, 0, NoPage, NoPage,
               ScryfallApiError("No sets selected for random card selection", 500))
          /\ UNCHANGED requests
     ELSE /\ sampler' = [sampler EXCEPT !.pc = "page1"]
          /\ requests' = Append(requests,
               Request("getRandomCardFromSets",
                       buildMultipleSetQuery(sampler.setCodes), 1))
  /\ UNCHANGED <<search, matcherVars, unitVars, optionVars, gameVars, cacheVars>>

\* Lines 196-208: page 1 arrives (or fails); the random page is requested.
getRandomCardFromSetsFirstPage ==
  /\ sampler.pc = "page1"
  /\ \E outcome \in SearchOutcomes(buildMultipleSetQuery(sampler.setCodes), 1) :
       LET r == searchCardsMultipleSets(sampler.setCodes, outcome)
       IN IF r.threw
          THEN /\ sampler' = [SamplerFail(sampler, 0, NoPage, NoPage, r.error)
                                 EXCEPT !.outcome = outcome]
               /\ UNCHANGED requests
          ELSE IF r.value.total_cards = 0
          THEN /\ sampler' = [SamplerFail(sampler, 1, r.value, NoPage,
                    ScryfallApiError("No cards found in the selected sets", 500))
                                 EXCEPT !.outcome = outcome]
               /\ UNCHANGED requests
          ELSE \E p \in RandomPages(r.value) :
               /\ sampler' = [SamplerState("page2", sampler.setCodes, 1,
                                           r.value, p, NoPage, NoResult)
                                 EXCEPT !.outcome = outcome]
               /\ requests' = Append(requests,
                    Request("getRandomCardFromSets",
                            buildMultipleSetQuery(sampler.setCodes), p))
  /\ UNCHANGED <<search, matcherVars, unitVars, optionVars, gameVars, cacheVars>>

\* Lines 208-219: the random page arrives (or fails); a card is picked.
getRandomCardFromSetsRandomPage ==
  /\ sampler.pc = "page2"
  /\ \E outcome \in SearchOutcomes(buildMultipleSetQuery(sampler.setCodes),
                                   sampler.randomPage) :
       LET r == searchCardsMultipleSets(sampler.setCodes, outcome)
       IN IF r.threw
          THEN sampler' = [SamplerFail(sampler, 1, sampler.firstPage, NoPage,
                                        r.error) EXCEPT !.outcome = outcome]
          ELSE IF Len(r.value.data) = 0
          THEN sampler' = [SamplerFail(sampler, 2, sampler.firstPage, r.value,
                    ScryfallApiError("No cards found on selected page", 500))
                              EXCEPT !.outcome = outcome]
          ELSE \E i \in RandomIndexes(r.value) :
               sampler' = [sampler EXCEPT !.pc = "done", !.fetched = 2,
                              !.outcome = outcome,
                              !.randomPageResponse = r.value,
                              !.result = CardResult(ElementAt(r.value.data, i))]
  /\ UNCHANGED <<requests, search, matcherVars, unitVars, optionVars, gameVars, cacheVars>>

\* ------------------------------------- searchCardsMultipleSets, stepwise

\* outcome: what the HTTP exchange of the request came to.
SearchState(pc, setCodes, result) ==
  [pc |-> pc, setCodes |-> setCodes, result |-> result, outcome |-> NoOutcome]

SearchIdle == SearchState("idle", <<>>, Resolved(NoPage))

\* performSearch: searchCardsMultipleSets(selectedSets), page 1.
searchCardsMultipleSetsCall ==
  /\ search.pc = "start"
  /\ IF SearchSendsRequest(search.setCodes)
     THEN /\ search' = [search EXCEPT !.pc = "await"]
          /\ requests' = Append(requests,
               Request("performSearch",
                       buildMultipleSetQuery(search.setCodes), 1))
     ELSE /\ search' = [search EXCEPT !.pc = "done",
               !.result = searchCardsMultipleSets(search.setCodes, NoOutcome)]
          /\ UNCHANGED requests
  /\ UNCHANGED <<sampler, matcherVars, unitVars, optionVars, gameVars, cacheVars>>

searchCardsMultipleSetsResponse ==
  /\ search.pc = "await"
  /\ \E outcome \in SearchOutcomes(buildMultipleSetQuery(search.setCodes), 1) :
       search' = [search EXCEPT !.pc = "done", !.outcome = outcome,
                    !.result = searchCardsMultipleSets(search.setCodes, outcome)]
  /\ UNCHANGED <<requests, sampler, matcherVars, unitVars, optionVars, gameVars, cacheVars>>

\* ----------------------------------------------------- cardNamesMatch call

MatcherState(pc, guess, correctName, ng, nc, isMatch) ==
  [pc |-> pc, guess |-> guess, correctName |-> correctName,
   normalizedGuess |-> ng, normalizedCorrect |-> nc, isMatch |-> isMatch]

MatcherIdle == MatcherState("idle", <<>>, <<>>, <<>>, <<>>, FALSE)

\* The characters a player types in the matcher specification.
TypedChars == {"a", "A", "b", "1", ",", " ", "\t", "E_ACUTE"}

TypedTexts == UNION {[1..n -> TypedChars] : n \in 0..MaxLen}

\* The card names the typed text is compared with.
MatcherNames == { <<"A","b">>, <<"a"," ","B">>, <<"A",",","1">>, SolRing }

cardNamesMatchCall ==
  /\ matcher.pc = "start"
  /\ matcher' = MatcherState("done", matcher.guess, matcher.correctName,
                             normalizeCardName(matcher.guess),
                             normalizeCardName(matcher.correctName),
                             cardNamesMatch(matcher.guess, matcher.correctName))
  /\ UNCHANGED <<serviceVars, samplerVars, optionVars, gameVars, cacheVars, unitVars>>

\* ------------------------------------------ generateMultipleChoiceOptions

\* Longest page the distractor generator is handed.
MaxPage == 3

\* const fallbacks (line 397)
fallbacks == <<LightningBolt, Counterspell, GiantGrowth, SolRing, PathToExile>>

Swap(arr, i, j) == [arr EXCEPT ![i] = arr[j], ![j] = arr[i]]

\* The loop of lines 383-386 and 432-435 with the draws js: for i from the
\* last position down to the second, swap positions i and js[i] <= i.
RECURSIVE FisherYates(_, _, _)
FisherYates(arr, i, js) ==
  IF i < 2 THEN arr ELSE FisherYates(Swap(arr, i, js[i]), i - 1, js)

\* The draws Math.floor(Math.random() * (i + 1)) can make.
ShuffleDraws(n) == {js \in [2..n -> 1..n] : \A i \in 2..n : js[i] <= i}

\* The orders shuffleArray returns for the given draws.
shuffleArrayDrawing(arr, draws) ==
  {FisherYates(arr, Len(arr), js) : js \in draws}

\* Every order shuffleArray can return.
shuffleArray(arr) == shuffleArrayDrawing(arr, ShuffleDraws(Len(arr)))

\* Mutant of WrongAnswerCandidates: the correct card is not removed.
WrongAnswerCandidatesUnfiltered(availableCards, correctCard) == availableCards

\* availableCards.filter(card => card.name !== correctCard.name)
WrongAnswerCandidates(availableCards, correctCard) ==
  SelectSeq(availableCards, LAMBDA card : card.name # correctCard.name)

\* Lines 389-394: the first 3 distinct names of the shuffled candidates.
RECURSIVE TakeWrongAnswers(_, _)
TakeWrongAnswers(cards, wrongAnswers) ==
  IF cards = <<>> \/ Len(wrongAnswers) >= 3 THEN wrongAnswers
  ELSE IF Head(cards).name \in Range(wrongAnswers)
       THEN TakeWrongAnswers(Tail(cards), wrongAnswers)
       ELSE TakeWrongAnswers(Tail(cards), Append(wrongAnswers, Head(cards).name))

\* Lines 398-403: the remaining slots are filled from the fallbacks.
RECURSIVE FillFromFallbacks(_, _, _)
FillFromFallbacks(names, wrongAnswers, correctCard) ==
  IF names = <<>> \/ Len(wrongAnswers) >= 3 THEN wrongAnswers
  ELSE IF Head(names) # correctCard.name /\ Head(names) \notin Range(wrongAnswers)
       THEN FillFromFallbacks(Tail(names), Append(wrongAnswers, Head(names)),
                              correctCard)
       ELSE FillFromFallbacks(Tail(names), wrongAnswers, correctCard)

Option(text, isCorrect) == [text |-> text, isCorrect |-> isCorrect]

\* wrongAnswers[i] || fallback
OrElse(wrongAnswers, i, name) ==
  IF i \in DOMAIN wrongAnswers /\ wrongAnswers[i] # <<>>
  THEN wrongAnswers[i] ELSE name

\* Lines 406-411.
OptionsArray(correctCard, wrongAnswers) ==
  << Option(correctCard.name, TRUE),
     Option(OrElse(wrongAnswers, 1, LightningBolt), FALSE),
     Option(OrElse(wrongAnswers, 2, Counterspell), FALSE),
     Option(OrElse(wrongAnswers, 3, GiantGrowth), FALSE) >>

\* Lines 375-416: the option lists the call returns for the cards the search
\* made available, the final shuffle (line 416) making the given draws.
OptionsDrawing(correctCard, availableCards, draws) ==
  UNION { shuffleArrayDrawing(OptionsArray(correctCard,
              FillFromFallbacks(fallbacks,
                                TakeWrongAnswers(shuffledCandidates, <<>>),
                                correctCard)), draws)
          : shuffledCandidates \in
              shuffleArray(WrongAnswerCandidates(availableCards, correctCard)) }

\* Every option list the call can return.
OptionsFor(correctCard, availableCards) ==
  OptionsDrawing(correctCard, availableCards, ShuffleDraws(4))

\* Lines 366-373: searchResponse.data, or [] when the search failed.
AvailableCards(r) == IF r.threw THEN <<>> ELSE r.value.data

\* Every result of generateMultipleChoiceOptions, the search having come to r.
generateMultipleChoiceOptions(correctCard, r) ==
  OptionsFor(correctCard, AvailableCards(r))

OptionsState(pc, correctCard, selected, availableCards, rejected, options) ==
  [pc |-> pc, correctCard |-> correctCard, selectedSets |-> selected,
   availableCards |-> availableCards, rejected |-> rejected,
   options |-> options]

OptionsIdle == OptionsState("idle", NoCard, <<>>, <<>>, FALSE, <<>>)

\* Line 368: the one search of the call.
generateMultipleChoiceOptionsCall ==
  /\ mc.pc = "start"
  /\ mc' = [mc EXCEPT !.pc = "await"]
  /\ IF SearchSendsRequest(mc.selectedSets)
     THEN requests' = Append(requests,
            Request("generateMultipleChoiceOptions",
                    buildMultipleSetQuery(mc.selectedSets), 1))
     ELSE UNCHANGED requests
  /\ UNCHANGED <<samplerVars, matcherVars, unitVars, gameVars, cacheVars>>

\* The cards a page of the service can carry in the options specification:
\* any cards, in any order, repeated or not.
PoolCards ==
  { Card(1, JaceBeleren, "neo"), Card(2, LightningBolt, "neo"),
    Card(3, SolRing, "neo"), Card(4, AjaniCat, "dmu") }

AnyPages == UNION {[1..n -> PoolCards] : n \in 0..MaxPage}

AnyPageOutcomes ==
  {HttpOutcome("network", FALSE, 0, NoErrorObject, NoPage),
   HttpOutcome("response", FALSE, 404, NotFoundObject, NoPage)}
  \cup {HttpOutcome("response", TRUE, 200, NoErrorObject,
                    SearchResponse(Len(d), FALSE, d)) : d \in AnyPages}

\* The outcomes of the search of the call: none is needed when no request
\* was sent.
OptionSearchOutcomes ==
  IF SearchSendsRequest(mc.selectedSets) THEN AnyPageOutcomes ELSE {NoOutcome}

\* Lines 369-416: the search settles, the options are built and returned.
generateMultipleChoiceOptionsResponse ==
  /\ mc.pc = "await"
  /\ \E outcome \in OptionSearchOutcomes :
       LET r == searchCardsMultipleSets(mc.selectedSets, outcome)
       IN \E options \in generateMultipleChoiceOptions(mc.correctCard, r) :
            mc' = OptionsState("done", mc.correctCard, mc.selectedSets,
                               AvailableCards(r), FALSE, options)
  /\ UNCHANGED <<requests, samplerVars, matcherVars, unitVars, gameVars, cacheVars>>

\* -------------------------------------------------------------- persistence

\* STORAGE_VERSION (persistence.ts line 11)
STORAGE_VERSION == "3.0"

\* isCorrectGuess: boolean | null
IsCorrectNull == "null"

IsCorrectValue(b) == IF b THEN "true" ELSE "false"

\* selectedChoice: string | null; null and '' are both falsy and both are
\* stored as null (selectedChoice || null).
NullChoice == <<>>

PersistedGameState(sets, active, mode, score, streak, totalGuesses, card, submitted, lastGuess, isCorrect, input, options, choice) ==
  [selectedSets |-> sets, isGameActive |-> active, inputMode |-> mode,
   score |-> score, streak |-> streak, totalGuesses |-> totalGuesses,
   currentCard |-> card, isGuessSubmitted |-> submitted,
   lastGuess |-> lastGuess, isCorrectGuess |-> isCorrect,
   guessInput |-> input, multipleChoiceOptions |-> options,
   selectedChoice |-> choice]

DEFAULT_PERSISTED_STATE ==
  PersistedGameState(<<>>, FALSE, "multiplechoice", 0, 0, 0, NoCard, FALSE,
                     <<>>, IsCorrectNull, <<>>, <<>>, NullChoice)

\* localStorage and its item 'mtg-quiz-game-state'.  available: setItem and
\* removeItem work; present: getItem yields a text; parsable: JSON.parse takes
\* it; hasData, data, version: the fields of the parsed wrapper, version ""
\* where the wrapper has none.
StoredItem(available, present, parsable, hasData, data, version) ==
  [available |-> available, present |-> present, parsable |-> parsable, hasData |-> hasData, data |-> data, version |-> version]

\* A wrapper as saveGameState writes it, in a store that works.
StorageWrapper(data, version) == StoredItem(TRUE, TRUE, TRUE, TRUE, data, version)

NoStoredData == StoredItem(TRUE, FALSE, TRUE, FALSE, DEFAULT_PERSISTED_STATE, "")

\* { ...existing, ...partial }
Merge(existing, partial) ==
  [f \in DOMAIN existing |->
     IF f \in DOMAIN partial THEN partial[f] ELSE existing[f]]

\* loadGameState without the test of the version on line 169.
loadGameStateOfAnyVersion(item) ==
  IF ~item.available THEN DEFAULT_PERSISTED_STATE
  ELSE IF ~item.present THEN DEFAULT_PERSISTED_STATE
  ELSE IF ~item.parsable THEN DEFAULT_PERSISTED_STATE
  ELSE IF ~item.hasData \/ item.version = "" THEN DEFAULT_PERSISTED_STATE
  ELSE Merge(DEFAULT_PERSISTED_STATE, item.data)

\* Lines 146-201: the defaults when the store does not work, nothing is
\* stored, JSON.parse throws (the catch), the wrapper lacks data or version,
\* or the version differs; the stored data over the defaults otherwise.
loadGameState(item) ==
  IF ~item.available THEN DEFAULT_PERSISTED_STATE
  ELSE IF ~item.present THEN DEFAULT_PERSISTED_STATE
  ELSE IF ~item.parsable THEN DEFAULT_PERSISTED_STATE
  ELSE IF ~item.hasData \/ item.version = "" THEN DEFAULT_PERSISTED_STATE
  ELSE IF item.version # STORAGE_VERSION THEN DEFAULT_PERSISTED_STATE
  ELSE Merge(DEFAULT_PERSISTED_STATE, item.data)

\* The item after saveGameState(partial); nothing is written to a store
\* that does not work.
saveGameState(item, partial) ==
  IF ~item.available THEN item
  ELSE StorageWrapper(Merge(loadGameState(item), partial), STORAGE_VERSION)

\* Mutant of resetGameScores: the selection is cleared with the scores.
resetGameScoresClearingSets(item) ==
  saveGameState(item,
    [score |-> 0, streak |-> 0, totalGuesses |-> 0, currentCard |-> NoCard,
     isGuessSubmitted |-> FALSE, lastGuess |-> <<>>,
     isCorrectGuess |-> IsCorrectNull, guessInput |-> <<>>,
     multipleChoiceOptions |-> <<>>, selectedChoice |-> NullChoice,
     isGameActive |-> FALSE, selectedSets |-> <<>>])

resetGameScores(item) ==
  saveGameState(item,
    [score |-> 0, streak |-> 0, totalGuesses |-> 0, currentCard |-> NoCard,
     isGuessSubmitted |-> FALSE, lastGuess |-> <<>>,
     isCorrectGuess |-> IsCorrectNull, guessInput |-> <<>>,
     multipleChoiceOptions |-> <<>>, selectedChoice |-> NullChoice,
     isGameActive |-> FALSE])

saveSetPreference(item, sets) == saveGameState(item, [selectedSets |-> sets])

saveGameProgress(item, gs, input) ==
  saveGameState(item,
    [score |-> gs.score, streak |-> gs.streak,
     totalGuesses |-> gs.totalGuesses, currentCard |-> gs.currentCard,
     isGuessSubmitted |-> gs.isGuessSubmitted, lastGuess |-> gs.lastGuess,
     isCorrectGuess |-> gs.isCorrectGuess, guessInput |-> input,
     inputMode |-> gs.inputMode,
     multipleChoiceOptions |-> gs.multipleChoiceOptions,
     selectedChoice |-> gs.selectedChoice])

saveGameActiveStatus(item, active) ==
  saveGameState(item, [isGameActive |-> active])

\* One call of loadGameState: the store it finds and what it returns.
LoadState(pc, item, result) == [pc |-> pc, item |-> item, result |-> result]

LoadIdle == LoadState("idle", NoStoredData, DEFAULT_PERSISTED_STATE)

\* Data a wrapper can hold, none of them the defaults.
StoredData ==
  {PersistedGameState(sets, TRUE, mode, score, score, score + 1, card, FALSE, <<>>, IsCorrectNull, <<>>, <<>>, NullChoice) :
     sets \in {<<"neo">>, <<"neo", "dmu">>}, mode \in {"autocomplete", "multiplechoice"},
     score \in {0, 1}, card \in {NoCard, AllCards[1]}}

\* The stores loadGameState can find: one that does not work, one with
\* nothing stored, with a text that is not JSON, with a wrapper that lacks
\* its data or its version, of another version, or of the current one.
StoredItems ==
  {StoredItem(a, FALSE, TRUE, FALSE, DEFAULT_PERSISTED_STATE, "") : a \in BOOLEAN}
  \cup {StoredItem(a, TRUE, FALSE, FALSE, DEFAULT_PERSISTED_STATE, "") : a \in BOOLEAN}
  \cup {StoredItem(a, TRUE, TRUE, FALSE, DEFAULT_PERSISTED_STATE, v) : a \in BOOLEAN, v \in {"", "2.0", STORAGE_VERSION}}
  \cup {StoredItem(a, TRUE, TRUE, TRUE, d, v) : a \in BOOLEAN, d \in StoredData, v \in {"", "2.0", STORAGE_VERSION}}

\* ------------------------------------------------- whole calls of the service

\* Every result of a call of getRandomCardFromSets (lines 189-228), its two
\* searches included.
getRandomCardFromSets(setCodes) ==
  IF Len(setCodes) = 0
  THEN {CardError(ScryfallApiError("No sets selected for random card selection", 500))}
  ELSE UNION {
    LET r1 == searchCardsMultipleSets(setCodes, o1)
    IN IF r1.threw THEN {CardError(r1.error)}
       ELSE IF r1.value.total_cards = 0
       THEN {CardError(ScryfallApiError("No cards found in the selected sets", 500))}
       ELSE UNION {
         UNION {
           LET r2 == searchCardsMultipleSets(setCodes, o2)
           IN IF r2.threw THEN {CardError(r2.error)}
              ELSE IF Len(r2.value.data) = 0
              THEN {CardError(ScryfallApiError("No cards found on selected page", 500))}
              ELSE {CardResult(ElementAt(r2.value.data, i)) :
                      i \in RandomIndexes(r2.value)}
           : o2 \in SearchOutcomes(buildMultipleSetQuery(setCodes), p) }
         : p \in RandomPages(r1.value) }
    : o1 \in SearchOutcomes(buildMultipleSetQuery(setCodes), 1) }

\* The draws of the final shuffle a game is followed for: no swap at all, and
\* every position swapped with the first.
GameDraws == {[i \in 2..4 |-> i], [i \in 2..4 |-> 1]}

\* The option lists a call of generateMultipleChoiceOptions returns in a game,
\* its search answered by the service.
generateMultipleChoiceOptionsFromSets(correctCard, selected) ==
  UNION { OptionsDrawing(correctCard,
              AvailableCards(searchCardsMultipleSets(selected, o)), GameDraws)
          : o \in IF SearchSendsRequest(selected)
                  THEN SearchOutcomes(buildMultipleSetQuery(selected), 1)
                  ELSE {NoOutcome} }

\* The selections the setup view can make.
GameSelections ==
  {f \in FilterSets : Range(f) \subseteq
     {code \in SetCodes : \E i \in DOMAIN AllCards : AllCards[i].set = code}}

\* getRandomCardFromSets, tabulated over the selections.
randomCardsFromSets == [f \in GameSelections |-> getRandomCardFromSets(f)]

\* generateMultipleChoiceOptions, tabulated over the selections and cards.
multipleChoiceOptionsFromSets ==
  [f \in GameSelections |->
     [card \in Range(AllCards) |->
        generateMultipleChoiceOptionsFromSets(card, f)]]

\* ---------------------------------------------------------- CardGuessingGame

\* Guesses a game is followed for.
MaxGuesses == 2

\* The texts typed into the guess input.
GuessTexts == { <<>>, <<" ">>, <<"s", "o", "l", " ", "r", "i", "n", "g">> }

\* The sets offered for selection: those of the catalog with card_count > 0.
AvailableSets ==
  {code \in SetCodes : \E i \in DOMAIN AllCards : AllCards[i].set = code}

GameState(card, isLoading, submitted, lastGuess, isCorrect, score, streak, totalGuesses, mode, options, choice) ==
  [currentCard |-> card, isLoading |-> isLoading,
   isGuessSubmitted |-> submitted, lastGuess |-> lastGuess,
   isCorrectGuess |-> isCorrect, score |-> score, streak |-> streak,
   totalGuesses |-> totalGuesses, inputMode |-> mode,
   multipleChoiceOptions |-> options, selectedChoice |-> choice]

\* useState initial value (lines 78-90)
InitialGameState(mode) ==
  GameState(NoCard, FALSE, FALSE, <<>>, IsCorrectNull, 0, 0, 0, mode, <<>>,
            NullChoice)

\* The game state while no game component is mounted.
Unmounted == InitialGameState(DEFAULT_PERSISTED_STATE.inputMode)

\* Restore effect (lines 181-193)
RestoredGameState(persistedState, mode) ==
  GameState(persistedState.currentCard, FALSE,
            persistedState.isGuessSubmitted, persistedState.lastGuess,
            persistedState.isCorrectGuess, persistedState.score,
            persistedState.streak, persistedState.totalGuesses, mode,
            persistedState.multipleChoiceOptions,
            persistedState.selectedChoice)

LoadCall(setCodes, mode) ==
  [active |-> TRUE, setCodes |-> setCodes, inputMode |-> mode]

NoLoad == [active |-> FALSE, setCodes |-> <<>>, inputMode |-> ""]

RegenerateCall(card, setCodes) ==
  [active |-> TRUE, card |-> card, setCodes |-> setCodes]

NoRegenerate == [active |-> FALSE, card |-> NoCard, setCodes |-> <<>>]

\* The updater of loadNewCard on success (lines 323-332)
LoadedUpdate(prev, card, options) ==
  [prev EXCEPT !.currentCard = card, !.isLoading = FALSE,
               !.isGuessSubmitted = FALSE, !.lastGuess = <<>>,
               !.isCorrectGuess = IsCorrectNull,
               !.multipleChoiceOptions = options,
               !.selectedChoice = NullChoice]

\* Mutant of LoadFailedUpdate: a failed load keeps the card of the round.
LoadFailedUpdateKeepingCard(prev) ==
  [prev EXCEPT !.isLoading = FALSE]

\* The updater of loadNewCard on failure (lines 342-346)
LoadFailedUpdate(prev) ==
  [prev EXCEPT !.isLoading = FALSE, !.currentCard = NoCard]

\* Mutant of SubmitUpdate: a wrong answer leaves the streak alone.
SubmitUpdateKeepingStreak(prev, displayGuess, isCorrect, choice) ==
  [prev EXCEPT !.isGuessSubmitted = TRUE, !.lastGuess = displayGuess,
               !.isCorrectGuess = IsCorrectValue(isCorrect),
               !.score = IF isCorrect THEN prev.score + 1 ELSE prev.score,
               !.streak = IF isCorrect THEN prev.streak + 1 ELSE prev.streak,
               !.totalGuesses = prev.totalGuesses + 1,
               !.selectedChoice = choice]

\* The updater of submitGuess and handleChoiceSelect (lines 370-380, 441-449)
SubmitUpdate(prev, displayGuess, isCorrect, choice) ==
  [prev EXCEPT !.isGuessSubmitted = TRUE, !.lastGuess = displayGuess,
               !.isCorrectGuess = IsCorrectValue(isCorrect),
               !.score = IF isCorrect THEN prev.score + 1 ELSE prev.score,
               !.streak = IF isCorrect THEN prev.streak + 1 ELSE 0,
               !.totalGuesses = prev.totalGuesses + 1,
               !.selectedChoice = choice]

\* Mutant of SkipUpdate: the skip is not counted and keeps the streak.
SkipUpdateUncounted(prev) ==
  [prev EXCEPT !.isGuessSubmitted = TRUE, !.lastGuess = <<>>,
               !.isCorrectGuess = IsCorrectValue(FALSE),
               !.selectedChoice = NullChoice]

\* The updater of skipCard (lines 389-397)
SkipUpdate(prev) ==
  [prev EXCEPT !.isGuessSubmitted = TRUE, !.lastGuess = <<>>,
               !.isCorrectGuess = IsCorrectValue(FALSE), !.streak = 0,
               !.totalGuesses = prev.totalGuesses + 1,
               !.selectedChoice = NullChoice]

\* Mutant of ResetUpdate: the reset zeroes score and totalGuesses but keeps
\* the streak.
ResetUpdateKeepingStreak(prev) ==
  [prev EXCEPT !.score = 0, !.totalGuesses = 0,
               !.currentCard = NoCard, !.isGuessSubmitted = FALSE,
               !.lastGuess = <<>>, !.isCorrectGuess = IsCorrectNull,
               !.multipleChoiceOptions = <<>>,
               !.selectedChoice = NullChoice]

\* The updater of resetScores (lines 410-421)
ResetUpdate(prev) ==
  [prev EXCEPT !.score = 0, !.streak = 0, !.totalGuesses = 0,
               !.currentCard = NoCard, !.isGuessSubmitted = FALSE,
               !.lastGuess = <<>>, !.isCorrectGuess = IsCorrectNull,
               !.multipleChoiceOptions = <<>>,
               !.selectedChoice = NullChoice]

\* What the component renders (lines 513, 526, 539, 570).
ShowsNoCard ==
  isGameActive /\ isStateRestored /\ ~gameState.isLoading
  /\ gameState.currentCard = NoCard

ShowsCard ==
  isGameActive /\ isStateRestored /\ ~gameState.isLoading
  /\ gameState.currentCard # NoCard

\* Mutant of ShowsInput: the inputs stay on screen after the answer.
ShowsInputAfterAnswer == ShowsCard

\* Line 575: the inputs are rendered until the guess is submitted.
ShowsInput == ShowsCard /\ ~gameState.isGuessSubmitted

\* Lines 578, 659-673: the text input with Submit and Skip.
ShowsTextInput == ShowsInput /\ inputMode # "multiplechoice"

\* Lines 578-584 and MultipleChoiceInput lines 25, 35, 75-77: the enabled
\* option buttons.
ShowsChoices ==
  /\ ShowsInput /\ inputMode = "multiplechoice"
  /\ Len(gameState.multipleChoiceOptions) > 0
  /\ gameState.isCorrectGuess = IsCorrectNull

\* The condition of regenerateOptionsIfNeeded (lines 122-129) in the render
\* that shows gs, the effect running when its dependencies (lines 167-172)
\* differ from those of the render before.
RegenerateNeeded(before, gs) ==
  /\ \/ before.currentCard.id # gs.currentCard.id
     \/ before.isGuessSubmitted # gs.isGuessSubmitted
  /\ inputMode = "multiplechoice"
  /\ gs.currentCard # NoCard
  /\ Len(gs.multipleChoiceOptions) = 0
  /\ ~gs.isGuessSubmitted
  /\ Len(selectedSets) > 0

\* The render that follows a handler: the new component state, the
\* regeneration effect (lines 119-173) and the auto-save effect (223-231).
Render(before, gs, input, choice, item) ==
  /\ gameState' = gs
  /\ guessInput' = input
  /\ selectedChoice' = choice
  /\ storage' = saveGameProgress(item, [gs EXCEPT !.selectedChoice = choice],
                                 input)
  /\ regen' = IF RegenerateNeeded(before, gs)
              THEN RegenerateCall(gs.currentCard, selectedSets)
              ELSE regen

\* --------------------------------------------------------------- setup view

\* Mutant of handleSetSelect: the code is added whether selected or not.
handleSetSelectAdding ==
  /\ ~isGameActive
  /\ \E setCode \in AvailableSets :
       /\ selectedSets' = Append(selectedSets, setCode)
       /\ storage' = saveSetPreference(storage, selectedSets')
  /\ UNCHANGED <<isGameActive, inputMode, componentVars>>
  /\ UNCHANGED <<serviceVars, samplerVars, matcherVars, unitVars, optionVars, cacheVars>>

\* FilterDropdowns.handleSetSelect, then App's effect saving the selection.
handleSetSelect ==
  /\ ~isGameActive
  /\ \E setCode \in AvailableSets :
       /\ selectedSets' =
            IF setCode \in Range(selectedSets)
            THEN SelectSeq(selectedSets, LAMBDA code : code # setCode)
            ELSE Append(selectedSets, setCode)
       /\ storage' = saveSetPreference(storage, selectedSets')
  /\ UNCHANGED <<isGameActive, inputMode, componentVars>>
  /\ UNCHANGED <<serviceVars, samplerVars, matcherVars, unitVars, optionVars, cacheVars>>

\* InputModeSelector.handleToggle: multiple choice on or off.
handleToggle ==
  /\ ~isGameActive
  /\ inputMode' = IF inputMode = "multiplechoice" THEN "autocomplete"
                  ELSE "multiplechoice"
  /\ UNCHANGED <<selectedSets, isGameActive, storage, componentVars>>
  /\ UNCHANGED <<serviceVars, samplerVars, matcherVars, unitVars, optionVars, cacheVars>>

\* App.startGame: the game component mounts, restores the saved progress,
\* calls loadNewCard when no card was saved, and the effects of that render
\* and App's effect on isGameActive save.
startGame ==
  /\ ~isGameActive
  /\ Len(selectedSets) > 0
  /\ isGameActive' = TRUE
  /\ isStateRestored' = TRUE
  /\ LET persistedState == loadGameState(storage)
         restored == RestoredGameState(persistedState, inputMode)
         needsCard == persistedState.currentCard = NoCard
     IN /\ loading' = IF needsCard THEN LoadCall(selectedSets, inputMode)
                      ELSE NoLoad
        /\ Render(InitialGameState(inputMode),
                  IF needsCard THEN [restored EXCEPT !.isLoading = TRUE]
                  ELSE restored,
                  persistedState.guessInput, persistedState.selectedChoice,
                  saveGameActiveStatus(storage, TRUE))
  /\ UNCHANGED <<selectedSets, inputMode>>
  /\ UNCHANGED <<serviceVars, samplerVars, matcherVars, unitVars, optionVars, cacheVars>>

\* App.backToSetup: the game component unmounts; what it had in flight
\* settles on an unmounted component.
backToSetup ==
  /\ ShowsNoCard \/ ShowsCard
  /\ isGameActive' = FALSE
  /\ storage' = saveGameActiveStatus(storage, FALSE)
  /\ gameState' = Unmounted
  /\ guessInput' = <<>>
  /\ selectedChoice' = NullChoice
  /\ isStateRestored' = FALSE
  /\ loading' = NoLoad
  /\ regen' = NoRegenerate
  /\ UNCHANGED <<selectedSets, inputMode>>
  /\ UNCHANGED <<serviceVars, samplerVars, matcherVars, unitVars, optionVars, cacheVars>>

\* ---------------------------------------------------------------- game view

handleInputChange ==
  /\ ShowsTextInput
  /\ \E value \in GuessTexts \ {guessInput} :
       Render(gameState, gameState, value, selectedChoice, storage)
  /\ UNCHANGED <<selectedSets, isGameActive, inputMode, isStateRestored,
                 loading>>
  /\ UNCHANGED <<serviceVars, samplerVars, matcherVars, unitVars, optionVars, cacheVars>>

\* Lines 349-384, from the Submit button or the Enter key of the text input.
submitGuess ==
  /\ ShowsTextInput
  /\ gameState.currentCard # NoCard
  /\ gameState.totalGuesses < MaxGuesses
  /\ LET guessToCheck == IF inputMode = "multiplechoice" THEN selectedChoice
                         ELSE guessInput
     IN /\ IF inputMode = "multiplechoice" THEN selectedChoice # NullChoice
           ELSE trim(guessInput) # <<>>
        /\ Render(gameState,
                  SubmitUpdate(gameState, guessToCheck,
                     cardNamesMatch(guessToCheck, gameState.currentCard.name),
                     IF inputMode = "multiplechoice" THEN selectedChoice
                     ELSE NullChoice),
                  guessInput, selectedChoice, storage)
  /\ UNCHANGED <<selectedSets, isGameActive, inputMode, isStateRestored,
                 loading>>
  /\ UNCHANGED <<serviceVars, samplerVars, matcherVars, unitVars, optionVars, cacheVars>>

\* Lines 431-453, from an option button.
handleChoiceSelect ==
  /\ ShowsChoices
  /\ gameState.currentCard # NoCard
  /\ gameState.totalGuesses < MaxGuesses
  /\ \E i \in DOMAIN gameState.multipleChoiceOptions :
       LET choice == gameState.multipleChoiceOptions[i].text
       IN Render(gameState,
                 SubmitUpdate(gameState, choice,
                    cardNamesMatch(choice, gameState.currentCard.name),
                    choice),
                 guessInput, choice, storage)
  /\ UNCHANGED <<selectedSets, isGameActive, inputMode, isStateRestored,
                 loading>>
  /\ UNCHANGED <<serviceVars, samplerVars, matcherVars, unitVars, optionVars, cacheVars>>

\* Lines 386-402, from the Skip button.
skipCard ==
  /\ ShowsTextInput
  /\ gameState.currentCard # NoCard
  /\ gameState.totalGuesses < MaxGuesses
  /\ Render(gameState, SkipUpdate(gameState), guessInput, NullChoice, storage)
  /\ UNCHANGED <<selectedSets, isGameActive, inputMode, isStateRestored,
                 loading>>
  /\ UNCHANGED <<serviceVars, samplerVars, matcherVars, unitVars, optionVars, cacheVars>>

\* loadNewCard up to its first await (line 294), called on the item left by
\* the caller.
loadNewCard(gs, input, choice, item) ==
  /\ Render(gameState, [gs EXCEPT !.isLoading = TRUE], input, choice, item)
  /\ loading' = LoadCall(selectedSets, inputMode)

\* Lines 404-406, from the Next Card button.
nextCard ==
  /\ ShowsCard /\ gameState.isGuessSubmitted
  /\ loadNewCard(gameState, guessInput, selectedChoice, storage)
  /\ UNCHANGED <<selectedSets, isGameActive, inputMode, isStateRestored>>
  /\ UNCHANGED <<serviceVars, samplerVars, matcherVars, unitVars, optionVars, cacheVars>>

\* Line 553, the Try Again button of the view without a card.
tryAgain ==
  /\ ShowsNoCard
  /\ loadNewCard(gameState, guessInput, selectedChoice, storage)
  /\ UNCHANGED <<selectedSets, isGameActive, inputMode, isStateRestored>>
  /\ UNCHANGED <<serviceVars, samplerVars, matcherVars, unitVars, optionVars, cacheVars>>

\* Lines 408-425, from the Reset Scores button.
resetScores ==
  /\ ShowsCard
  /\ loadNewCard(ResetUpdate(gameState), <<>>, NullChoice,
                 resetGameScores(storage))
  /\ UNCHANGED <<selectedSets, isGameActive, inputMode, isStateRestored>>
  /\ UNCHANGED <<serviceVars, samplerVars, matcherVars, unitVars, optionVars, cacheVars>>

\* Lines 297-347: the awaits of loadNewCard settle.
loadNewCardSettles ==
  /\ loading.active
  /\ loading' = NoLoad
  /\ \E result \in randomCardsFromSets[loading.setCodes] :
       IF result.threw
       THEN Render(gameState, LoadFailedUpdate(gameState), guessInput,
                   selectedChoice, storage)
       ELSE \E options \in
                 IF loading.inputMode = "multiplechoice"
                 THEN multipleChoiceOptionsFromSets[loading.setCodes][result.card]
                 ELSE {<<>>} :
              Render(gameState, LoadedUpdate(gameState, result.card, options),
                     <<>>, NullChoice, storage)
  /\ UNCHANGED <<selectedSets, isGameActive, inputMode, isStateRestored>>
  /\ UNCHANGED <<serviceVars, samplerVars, matcherVars, unitVars, optionVars, cacheVars>>

\* Lines 135-142: the await of regenerateOptionsIfNeeded settles.
regenerateOptionsSettles ==
  /\ regen.active
  /\ \E options \in multipleChoiceOptionsFromSets[regen.setCodes][regen.card] :
       /\ gameState' = [gameState EXCEPT !.multipleChoiceOptions = options]
       /\ storage' = saveGameProgress(storage,
            [gameState' EXCEPT !.selectedChoice = selectedChoice], guessInput)
  /\ regen' = NoRegenerate
  /\ UNCHANGED <<guessInput, selectedChoice>>
  /\ UNCHANGED <<selectedSets, isGameActive, inputMode, isStateRestored,
                 loading>>
  /\ UNCHANGED <<serviceVars, samplerVars, matcherVars, unitVars, optionVars, cacheVars>>

\* ------------------------------ getCardNameAutocompleteFromSets, stepwise

SuggestServed(call, served, result) == [call EXCEPT !.pc = "done", !.served = served, !.result = result]

\* StoreAndServe with the store of line 316 made under the module's current
\* key, not the key the call computed before its awaits.
StoreAndServeUnderCurrentKey(c, names, failedPage) ==
  /\ cardNamesCache' = CacheStore(cardNamesCache,
                                  IF cacheKey = <<>> THEN suggest[c].currentCacheKey ELSE cacheKey,
                                  SortNames(names))
  /\ cacheKey' = suggest[c].currentCacheKey
  /\ suggest' = [suggest EXCEPT ![c] = SuggestServed(
                    [suggest[c] EXCEPT !.allCardNames = names, !.failedPage = failedPage], "cache",
                    matchingNames(SortNames(names), suggest[c].query))]

\* StoreAndServe with the assignment of line 317 left out: the entry is
\* stored but the current key stays as it was.
StoreAndServeKeepingKey(c, names, failedPage) ==
  /\ cardNamesCache' = CacheStore(cardNamesCache, suggest[c].currentCacheKey,
                                  SortNames(names))
  /\ cacheKey' = cacheKey
  /\ suggest' = [suggest EXCEPT ![c] = SuggestServed(
                    [suggest[c] EXCEPT !.allCardNames = names, !.failedPage = failedPage], "cache",
                    matchingNames(SortNames(names), suggest[c].query))]

\* Lines 315-317 and on: the names are stored under the key of the call, the
\* key becomes the current one, and the call answers from its entry.
StoreAndServe(c, names, failedPage) ==
  /\ cardNamesCache' = CacheStore(cardNamesCache, suggest[c].currentCacheKey,
                                  SortNames(names))
  /\ cacheKey' = suggest[c].currentCacheKey
  /\ suggest' = [suggest EXCEPT ![c] = SuggestServed(
                    [suggest[c] EXCEPT !.allCardNames = names, !.failedPage = failedPage], "cache",
                    matchingNames(SortNames(names), suggest[c].query))]

\* Lines 274-287: the guards, the key of the sorted selection, and either an
\* answer from the cache or the request for page 1.
getCardNameAutocompleteFromSetsCall(c) ==
  /\ suggest[c].pc \in {"idle", "done"}
  /\ \E query \in SuggestQueries, setCodes \in SuggestSelections :
       IF Len(query) < 2 \/ Len(setCodes) = 0
       THEN suggest' = [suggest EXCEPT ![c] =
              SuggestState("done", query, setCodes, <<>>, {}, "empty", <<>>)]
       ELSE LET currentCacheKey == CacheKeys[setCodes]
            IN suggest' = [suggest EXCEPT ![c] =
                 IF cacheKey # currentCacheKey
                    \/ currentCacheKey \notin DOMAIN cardNamesCache
                 THEN SuggestState("page1", query, SortedSelections[setCodes],
                                   currentCacheKey, {}, "nothing", <<>>)
                 ELSE SuggestState("done", query, SortedSelections[setCodes],
                                   currentCacheKey, {}, "cache",
                                   matchingNames(cardNamesCache[currentCacheKey], query))]
  /\ UNCHANGED <<cardNamesCache, cacheKey>>
  /\ UNCHANGED <<serviceVars, samplerVars, matcherVars, unitVars, optionVars, gameVars>>

\* Lines 287-312: page 1 arrives (or fails).
getCardNameAutocompleteFromSetsFirstPage(c) ==
  /\ suggest[c].pc = "page1"
  /\ \E outcome \in
         SearchOutcomes(buildMultipleSetQuery(suggest[c].setCodes), 1) :
       LET r == searchCardsMultipleSets(suggest[c].setCodes, outcome)
       IN IF r.threw \/ r.value.total_cards = 0
          THEN /\ suggest' = [suggest EXCEPT ![c].pc = "global",
                                ![c].failedPage = IF r.threw THEN 1 ELSE 0]
               /\ UNCHANGED <<cardNamesCache, cacheKey>>
          ELSE IF r.value.has_more /\ r.value.total_cards > FullPage
          THEN /\ suggest' = [suggest EXCEPT ![c].pc = "page2",
                                ![c].allCardNames = NamesOf(r.value.data)]
               /\ UNCHANGED <<cardNamesCache, cacheKey>>
          ELSE StoreAndServe(c, NamesOf(r.value.data), 0)
  /\ UNCHANGED <<serviceVars, samplerVars, matcherVars, unitVars, optionVars, gameVars>>

\* Lines 303-307: page 2 arrives; a failure leaves the names of page 1.
getCardNameAutocompleteFromSetsSecondPage(c) ==
  /\ suggest[c].pc = "page2"
  /\ \E outcome \in
         SearchOutcomes(buildMultipleSetQuery(suggest[c].setCodes), 2) :
       LET r == searchCardsMultipleSets(suggest[c].setCodes, outcome)
           names == suggest[c].allCardNames \cup NamesOf(r.value.data)
       IN IF r.threw
          THEN StoreAndServe(c, suggest[c].allCardNames, 2)
          ELSE IF r.value.has_more
          THEN /\ suggest' = [suggest EXCEPT ![c].pc = "page3",
                                ![c].allCardNames = names]
               /\ UNCHANGED <<cardNamesCache, cacheKey>>
          ELSE StoreAndServe(c, names, 0)
  /\ UNCHANGED <<serviceVars, samplerVars, matcherVars, unitVars, optionVars, gameVars>>

\* Lines 307-312: page 3 arrives; a failure leaves the names of pages 1, 2.
getCardNameAutocompleteFromSetsThirdPage(c) ==
  /\ suggest[c].pc = "page3"
  /\ \E outcome \in
         SearchOutcomes(buildMultipleSetQuery(suggest[c].setCodes), 3) :
       LET r == searchCardsMultipleSets(suggest[c].setCodes, outcome)
       IN IF r.threw
          THEN StoreAndServe(c, suggest[c].allCardNames, 3)
          ELSE StoreAndServe(c, suggest[c].allCardNames
                                  \cup NamesOf(r.value.data), 0)
  /\ UNCHANGED <<serviceVars, samplerVars, matcherVars, unitVars, optionVars, gameVars>>

\* Lines 291, 343 with 249-263: the global autocomplete answers, or fails and
\* the call returns the empty list; an error it let out would reject the call.
getCardNameAutocompleteSettles(c) ==
  /\ suggest[c].pc = "global"
  /\ \E outcome \in AutocompleteOutcomes(suggest[c].query) :
       LET r == getCardNameAutocomplete(suggest[c].query, outcome)
       IN suggest' = [suggest EXCEPT ![c] = SuggestServed(suggest[c],
                        IF r.threw THEN "rejected"
                        ELSE IF outcome.ok THEN "global" ELSE "empty",
                        r.names)]
  /\ UNCHANGED <<cardNamesCache, cacheKey>>
  /\ UNCHANGED <<serviceVars, samplerVars, matcherVars, unitVars, optionVars, gameVars>>

\* ------------------------------------------------- the filter, one call

\* Lines 321-335, evaluated on the list cached under the key of the call.
matchingNamesReturns ==
  /\ filterCall.pc = "called"
  /\ filterCall' = FilterState("done", filterCall.cached, filterCall.query,
                               matchingNames(filterCall.cached, filterCall.query))
  /\ UNCHANGED <<serviceVars, samplerVars, matcherVars, optionVars, gameVars, cacheVars>>
  /\ UNCHANGED <<httpCall, loadCall, timeVars>>

\* ------------------------------------------------- makeRequest, one call

makeRequestSettles ==
  /\ httpCall.pc = "called"
  /\ httpCall' = HttpState("done", httpCall.outcome, makeRequest(httpCall.outcome))
  /\ UNCHANGED <<serviceVars, samplerVars, matcherVars, optionVars, gameVars, cacheVars>>
  /\ UNCHANGED <<filterCall, loadCall, timeVars>>

\* ---------------------------------------------- loadGameState, one call

loadGameStateReturns ==
  /\ loadCall.pc = "called"
  /\ loadCall' = LoadState("done", loadCall.item, loadGameState(loadCall.item))
  /\ UNCHANGED <<serviceVars, samplerVars, matcherVars, optionVars, gameVars, cacheVars>>
  /\ UNCHANGED <<filterCall, httpCall, timeVars>>

\* ------------------------------------- makeRequest, the delay and the clock

TimeIdle ==
  /\ now = 0
  /\ timed = [o \in Operations |-> TimedState("idle", 0, 0)]
  /\ sent = <<>>

\* Line 57: an operation calls makeRequest, which starts its own timer.
makeRequestCall(o) ==
  /\ timed[o].pc = "idle"
  /\ timed[o].left > 0
  /\ timed' = [timed EXCEPT ![o] = TimedState("delay", now + REQUEST_DELAY, timed[o].left)]
  /\ UNCHANGED <<now, sent>>
  /\ UNCHANGED <<serviceVars, samplerVars, matcherVars, optionVars, gameVars, cacheVars>>
  /\ UNCHANGED <<filterCall, httpCall, loadCall>>

\* Line 59: the timer has fired, not before it was due, and fetch is called.
makeRequestFetch(o) ==
  /\ timed[o].pc = "delay"
  /\ now >= timed[o].due
  /\ timed' = [timed EXCEPT ![o].pc = "fetch"]
  /\ sent' = Append(sent, [by |-> o, at |-> now])
  /\ UNCHANGED now
  /\ UNCHANGED <<serviceVars, samplerVars, matcherVars, optionVars, gameVars, cacheVars>>
  /\ UNCHANGED <<filterCall, httpCall, loadCall>>

\* Lines 59-60: the response arrives and the operation goes on.
makeRequestResponse(o) ==
  /\ timed[o].pc = "fetch"
  /\ timed' = [timed EXCEPT ![o] = TimedState("idle", 0, timed[o].left - 1)]
  /\ UNCHANGED <<now, sent>>
  /\ UNCHANGED <<serviceVars, samplerVars, matcherVars, optionVars, gameVars, cacheVars>>
  /\ UNCHANGED <<filterCall, httpCall, loadCall>>

\* Time passes.
Tick ==
  /\ now + TickMs <= MaxTime
  /\ now' = now + TickMs
  /\ UNCHANGED <<timed, sent>>
  /\ UNCHANGED <<serviceVars, samplerVars, matcherVars, optionVars, gameVars, cacheVars>>
  /\ UNCHANGED <<filterCall, httpCall, loadCall>>

\* ------------------------------------- a multiple-choice round on any pool

\* A name without its commas.
WithoutCommas(name) == SelectSeq(name, LAMBDA ch : ch # ",")

\* The cards of the service in the specification of the option click: two
\* of them differ in a comma only.
ChoicePool ==
  { Card(1, JaceBeleren, "neo"), Card(2, LightningBolt, "neo"),
    Card(6, WithoutCommas(JaceBeleren), "neo") }

\* The pages the search of generateMultipleChoiceOptions can bring.
ChoicePages == UNION {[1..n -> ChoicePool] : n \in 0..MaxPage}

\* Lines 297-347 with the service holding ChoicePool: the awaits of
\* loadNewCard settle with a card and the options generated for it.
loadNewCardSettlesFromPool ==
  /\ loading.active
  /\ loading.inputMode = "multiplechoice"
  /\ loading' = NoLoad
  /\ \E card \in ChoicePool, d \in ChoicePages :
       \E options \in generateMultipleChoiceOptions(card,
                         Resolved(SearchResponse(Len(d), FALSE, d))) :
          Render(gameState, LoadedUpdate(gameState, card, options),
                 <<>>, NullChoice, storage)
  /\ UNCHANGED <<selectedSets, isGameActive, inputMode, isStateRestored>>
  /\ UNCHANGED <<serviceVars, samplerVars, matcherVars, unitVars, optionVars, cacheVars>>

\* ------------------------------------------ FilterDropdowns: the selection

\* FORMAT_SETS (lines 15-21), shortened: each list keeps the order of the
\* source's and holds codes of sets that are loaded and of sets that are not.
FORMAT_SETS ==
  [standard |-> <<"dmu", "bro", "one", "mom">>,
   pioneer |-> <<"neo", "dmu", "bro", "one", "mom">>]

\* The set codes a selection restored from an earlier visit can hold.
DropdownCodes == AvailableSets \cup {"bro", "one", "mom"}

\* Arrays of distinct codes, as the setup view has saved them.
DropdownSelections ==
  {f \in UNION {[1..n -> DropdownCodes] : n \in 0..MaxSets} :
     \A i, j \in DOMAIN f : i # j => f[i] # f[j]}

\* Line 182, from the remove button of a selected set, then App's effect
\* saving the selection.
handleRemoveSet ==
  /\ ~isGameActive
  /\ \E setCodeToRemove \in Range(selectedSets) :
       /\ selectedSets' =
            SelectSeq(selectedSets, LAMBDA code : code # setCodeToRemove)
       /\ storage' = saveSetPreference(storage, selectedSets')
  /\ UNCHANGED <<isGameActive, inputMode, componentVars>>
  /\ UNCHANGED <<serviceVars, samplerVars, matcherVars, unitVars, optionVars, cacheVars>>

\* Line 186, from the Clear All button shown for a non-empty selection.
handleClearAll ==
  /\ ~isGameActive
  /\ Len(selectedSets) > 0
  /\ selectedSets' = <<>>
  /\ storage' = saveSetPreference(storage, selectedSets')
  /\ UNCHANGED <<isGameActive, inputMode, componentVars>>
  /\ UNCHANGED <<serviceVars, samplerVars, matcherVars, unitVars, optionVars, cacheVars>>

\* Lines 190-197, from a format button: the codes of the format that are
\* among the loaded sets.
handleFormatPreset ==
  /\ ~isGameActive
  /\ \E format \in DOMAIN FORMAT_SETS :
       LET formatSets == FORMAT_SETS[format]
           availableSets == SelectSeq(formatSets,
                              LAMBDA code : code \in AvailableSets)
       IN /\ selectedSets' = availableSets
          /\ storage' = saveSetPreference(storage, selectedSets')
  /\ UNCHANGED <<isGameActive, inputMode, componentVars>>
  /\ UNCHANGED <<serviceVars, samplerVars, matcherVars, unitVars, optionVars, cacheVars>>

\* ------------------------- getCardNameAutocompleteFromSets and its caller

\* CardGuessingGame lines 271-279 with part_001 lines 274-287: the call of
\* getCardNameAutocompleteFromSets(guessInput, selectedSets) up to its first
\* await.  setCodes is the caller's array itself, and setCodes.sort() of
\* line 281 puts that array in order.
fetchAutocomplete(c) ==
  /\ suggest[c].pc \in {"idle", "done"}
  /\ \E query \in SuggestQueries :
       LET setCodes == selectedSets
       IN IF Len(query) < 2 \/ Len(setCodes) = 0
          THEN /\ suggest' = [suggest EXCEPT ![c] =
                    SuggestState("done", query, setCodes, <<>>, {}, "empty", <<>>)]
               /\ selectedSets' = setCodes
          ELSE LET currentCacheKey == JoinComma(SortCodes(setCodes))
               IN /\ selectedSets' = SortCodes(setCodes)
                  /\ suggest' = [suggest EXCEPT ![c] =
                       IF cacheKey # currentCacheKey
                          \/ currentCacheKey \notin DOMAIN cardNamesCache
                       THEN SuggestState("page1", query, selectedSets',
                                         currentCacheKey, {}, "nothing", <<>>)
                       ELSE SuggestState("done", query, selectedSets',
                                         currentCacheKey, {}, "cache",
                                         matchingNames(cardNamesCache[currentCacheKey], query))]
  /\ UNCHANGED <<cardNamesCache, cacheKey>>
  /\ UNCHANGED <<isGameActive, inputMode, storage, componentVars>>
  /\ UNCHANGED <<serviceVars, samplerVars, matcherVars, unitVars, optionVars>>

\* ------------------------------------------------------- specifications

\* No evaluation of a single function under way.
UnitIdle ==
  /\ filterCall = FilterIdle
  /\ httpCall = HttpIdle
  /\ loadCall = LoadIdle
  /\ TimeIdle

CacheIdle ==
  /\ cardNamesCache = EmptyCache
  /\ cacheKey = <<>>
  /\ suggest = [c \in Callers |-> SuggestIdle]

GameIdle ==
  /\ selectedSets = <<>>
  /\ isGameActive = FALSE
  /\ inputMode = DEFAULT_PERSISTED_STATE.inputMode
  /\ storage = NoStoredData
  /\ gameState = Unmounted
  /\ guessInput = <<>>
  /\ selectedChoice = NullChoice
  /\ isStateRestored = FALSE
  /\ loading = NoLoad
  /\ regen = NoRegenerate

\* The application opened for the first time: nothing is stored, App has
\* loaded the defaults and its effects have saved them.
Init ==
  /\ requests = <<>>
  /\ UnitIdle
  /\ sampler = SamplerIdle
  /\ search = SearchIdle
  /\ matcher = MatcherIdle
  /\ mc = OptionsIdle
  /\ selectedSets = loadGameState(NoStoredData).selectedSets
  /\ isGameActive = loadGameState(NoStoredData).isGameActive
  /\ inputMode = loadGameState(NoStoredData).inputMode
  /\ storage = saveGameActiveStatus(
                 saveSetPreference(NoStoredData, selectedSets), isGameActive)
  /\ gameState = Unmounted
  /\ guessInput = <<>>
  /\ selectedChoice = NullChoice
  /\ isStateRestored = FALSE
  /\ loading = NoLoad
  /\ regen = NoRegenerate
  /\ CacheIdle

Next ==
  \/ handleSetSelect
  \/ handleToggle
  \/ startGame
  \/ backToSetup
  \/ handleInputChange
  \/ submitGuess
  \/ handleChoiceSelect
  \/ skipCard
  \/ nextCard
  \/ tryAgain
  \/ resetScores
  \/ loadNewCardSettles
  \/ regenerateOptionsSettles

Spec == Init /\ [][Next]_vars


SamplerInit ==
  /\ requests = <<>>
  /\ UnitIdle
  /\ \E f \in FilterSets :
       /\ sampler = SamplerState("start", f, 0, NoPage, 0, NoPage, NoResult)
       /\ search = SearchState("start", f, Resolved(NoPage))
  /\ matcher = MatcherIdle
  /\ mc = OptionsIdle
  /\ GameIdle
  /\ CacheIdle

SamplerNext ==
  \/ getRandomCardFromSetsCall
  \/ getRandomCardFromSetsFirstPage
  \/ getRandomCardFromSetsRandomPage
  \/ searchCardsMultipleSetsCall
  \/ searchCardsMultipleSetsResponse

\* getRandomCardFromSets and searchCardsMultipleSets, for every selection.
SamplerSpec == SamplerInit /\ [][SamplerNext]_vars

MatcherInit ==
  /\ requests = <<>>
  /\ UnitIdle
  /\ sampler = SamplerIdle
  /\ search = SearchIdle
  /\ \E g \in TypedTexts, c \in MatcherNames :
       matcher = MatcherState("start", g, c, <<>>, <<>>, FALSE)
  /\ mc = OptionsIdle
  /\ GameIdle
  /\ CacheIdle

MatcherNext == cardNamesMatchCall

\* cardNamesMatch, for every typed text and card name.
MatcherSpec == MatcherInit /\ [][MatcherNext]_vars

OptionsInit ==
  /\ requests = <<>>
  /\ UnitIdle
  /\ sampler = SamplerIdle
  /\ search = SearchIdle
  /\ matcher = MatcherIdle
  /\ \E card \in {Card(1, JaceBeleren, "neo"), Card(2, LightningBolt, "neo")},
        f \in {<<>>, <<"neo">>, <<"neo", "dmu">>} :
       mc = OptionsState("start", card, f, <<>>, FALSE, <<>>)
  /\ GameIdle
  /\ CacheIdle

OptionsNext ==
  \/ generateMultipleChoiceOptionsCall
  \/ generateMultipleChoiceOptionsResponse

\* generateMultipleChoiceOptions, for every page the search can yield.
OptionsSpec == OptionsInit /\ [][OptionsNext]_vars

CacheInit ==
  /\ requests = <<>>
  /\ UnitIdle
  /\ sampler = SamplerIdle
  /\ search = SearchIdle
  /\ matcher = MatcherIdle
  /\ mc = OptionsIdle
  /\ GameIdle
  /\ CacheIdle

CacheNext ==
  \E c \in Callers :
    \/ getCardNameAutocompleteFromSetsCall(c)
    \/ getCardNameAutocompleteFromSetsFirstPage(c)
    \/ getCardNameAutocompleteFromSetsSecondPage(c)
    \/ getCardNameAutocompleteFromSetsThirdPage(c)
    \/ getCardNameAutocompleteSettles(c)

\* getCardNameAutocompleteFromSets, its calls overlapping at their awaits.
CacheSpec == CacheInit /\ [][CacheNext]_vars

FilterInit ==
  /\ requests = <<>>
  /\ sampler = SamplerIdle
  /\ search = SearchIdle
  /\ matcher = MatcherIdle
  /\ mc = OptionsIdle
  /\ GameIdle
  /\ CacheIdle
  /\ \E names \in SUBSET FilterPool, query \in FilterQueries :
       filterCall = FilterState("called", SortNames(names), query, <<>>)
  /\ httpCall = HttpIdle
  /\ loadCall = LoadIdle
  /\ TimeIdle

FilterNext == matchingNamesReturns

HttpInit ==
  /\ requests = <<>>
  /\ sampler = SamplerIdle
  /\ search = SearchIdle
  /\ matcher = MatcherIdle
  /\ mc = OptionsIdle
  /\ GameIdle
  /\ CacheIdle
  /\ filterCall = FilterIdle
  /\ \E outcome \in HttpOutcomes : httpCall = HttpState("called", outcome, Resolved(NoPage))
  /\ loadCall = LoadIdle
  /\ TimeIdle

HttpNext == makeRequestSettles

\* makeRequest, for every HTTP exchange.
HttpSpec == HttpInit /\ [][HttpNext]_vars

LoadInit ==
  /\ requests = <<>>
  /\ sampler = SamplerIdle
  /\ search = SearchIdle
  /\ matcher = MatcherIdle
  /\ mc = OptionsIdle
  /\ GameIdle
  /\ CacheIdle
  /\ filterCall = FilterIdle
  /\ httpCall = HttpIdle
  /\ TimeIdle
  /\ \E item \in StoredItems : loadCall = LoadState("called", item, DEFAULT_PERSISTED_STATE)

LoadNext == loadGameStateReturns

\* loadGameState, for every store.
LoadSpec == LoadInit /\ [][LoadNext]_vars

TimeInit ==
  /\ requests = <<>>
  /\ sampler = SamplerIdle
  /\ search = SearchIdle
  /\ matcher = MatcherIdle
  /\ mc = OptionsIdle
  /\ GameIdle
  /\ CacheIdle
  /\ filterCall = FilterIdle
  /\ httpCall = HttpIdle
  /\ loadCall = LoadIdle
  /\ now = 0
  /\ timed = [o \in Operations |-> TimedState("idle", 0, MaxRequests)]
  /\ sent = <<>>

TimeNext ==
  \/ Tick
  \/ \E o \in Operations :
       \/ makeRequestCall(o)
       \/ makeRequestFetch(o)
       \/ makeRequestResponse(o)

\* Operations that overlap, each calling makeRequest for one request after
\* another, against the clock.
TimeSpec == TimeInit /\ [][TimeNext]_vars

\* The filter of the suggestions, for every cached list and text.
FilterSpec == FilterInit /\ [][FilterNext]_vars

\* A multiple-choice game just started on one set: the first card is loading.
ChoiceInit ==
  /\ requests = <<>>
  /\ UnitIdle
  /\ sampler = SamplerIdle
  /\ search = SearchIdle
  /\ matcher = MatcherIdle
  /\ mc = OptionsIdle
  /\ selectedSets = <<"neo">>
  /\ isGameActive = TRUE
  /\ inputMode = "multiplechoice"
  /\ gameState = [InitialGameState(inputMode) EXCEPT !.isLoading = TRUE]
  /\ guessInput = <<>>
  /\ selectedChoice = NullChoice
  /\ storage = saveGameProgress(
                 saveGameActiveStatus(
                   saveSetPreference(NoStoredData, selectedSets), TRUE),
                 gameState, guessInput)
  /\ isStateRestored = TRUE
  /\ loading = LoadCall(selectedSets, inputMode)
  /\ regen = NoRegenerate
  /\ CacheIdle

ChoiceNext ==
  \/ loadNewCardSettlesFromPool
  \/ handleChoiceSelect

\* A multiple-choice round whose options come from any page over ChoicePool.
ChoiceSpec == ChoiceInit /\ [][ChoiceNext]_vars

\* The setup view opened on a saved selection without duplicates.
SelectionInit ==
  /\ requests = <<>>
  /\ UnitIdle
  /\ sampler = SamplerIdle
  /\ search = SearchIdle
  /\ matcher = MatcherIdle
  /\ mc = OptionsIdle
  /\ selectedSets \in DropdownSelections
  /\ isGameActive = FALSE
  /\ inputMode = DEFAULT_PERSISTED_STATE.inputMode
  /\ storage = saveGameActiveStatus(
                 saveSetPreference(NoStoredData, selectedSets), isGameActive)
  /\ gameState = Unmounted
  /\ guessInput = <<>>
  /\ selectedChoice = NullChoice
  /\ isStateRestored = FALSE
  /\ loading = NoLoad
  /\ regen = NoRegenerate
  /\ CacheIdle

SelectionNext ==
  \/ handleSetSelect
  \/ handleRemoveSet
  \/ handleClearAll
  \/ handleFormatPreset

\* The selection of sets under the handlers of the setup view.
SelectionSpec == SelectionInit /\ [][SelectionNext]_vars

\* The caller holds an array of set codes in any order; nothing is cached.
CallerInit ==
  /\ requests = <<>>
  /\ UnitIdle
  /\ sampler = SamplerIdle
  /\ search = SearchIdle
  /\ matcher = MatcherIdle
  /\ mc = OptionsIdle
  /\ selectedSets \in SuggestSelections
  /\ isGameActive = FALSE
  /\ inputMode = DEFAULT_PERSISTED_STATE.inputMode
  /\ storage = NoStoredData
  /\ gameState = Unmounted
  /\ guessInput = <<>>
  /\ selectedChoice = NullChoice
  /\ isStateRestored = FALSE
  /\ loading = NoLoad
  /\ regen = NoRegenerate
  /\ CacheIdle

CallerNext ==
  \E c \in Callers :
    \/ fetchAutocomplete(c)
    \/ getCardNameAutocompleteFromSetsFirstPage(c)
    \/ getCardNameAutocompleteFromSetsSecondPage(c)
    \/ getCardNameAutocompleteFromSetsThirdPage(c)
    \/ getCardNameAutocompleteSettles(c)

\* getCardNameAutocompleteFromSets called on the array of its caller.
CallerSpec == CallerInit /\ [][CallerNext]_vars

\* =================================================================
\* Properties
\* =================================================================

SamplerRequests ==
  SelectSeq(requests, LAMBDA r : r.by = "getRandomCardFromSets")

SelectedCodes == Range(sampler.setCodes)

\* C4 as stated: for a non-empty selection whose first page reports
\* total_cards > 0, getRandomCardFromSets returns a card, of a selected set.
C4_AlwaysReturnsCard ==
  (/\ sampler.pc = "done"
   /\ Len(sampler.setCodes) > 0
   /\ sampler.fetched >= 1
   /\ sampler.firstPage.total_cards > 0)
  => /\ ~sampler.result.threw
     /\ sampler.result.card # NoCard
     /\ sampler.result.card.set \in SelectedCodes

\* C4, amended: for a non-empty selection whose first page reports
\* total_cards > 0, the call returns a card exactly when the fetch of the
\* random page succeeds with at least one card; the card is then of a selected
\* set; in every other case the call throws and returns no card.
C4_ReturnsCardOfSelectedSetWhenPageArrives ==
  (/\ sampler.pc = "done"
   /\ Len(sampler.setCodes) > 0
   /\ sampler.fetched >= 1
   /\ sampler.firstPage.total_cards > 0)
  => IF sampler.fetched = 2 /\ Len(sampler.randomPageResponse.data) > 0
     THEN /\ ~sampler.result.threw
          /\ sampler.result.card # NoCard
          /\ sampler.result.card.set \in SelectedCodes
     ELSE /\ sampler.result.threw
          /\ sampler.result.card = NoCard

\* C4 witness: a card of the second of two selected sets has been returned.
C4_Witness ==
  /\ sampler.pc = "done"
  /\ Len(sampler.setCodes) = 2
  /\ ~sampler.result.threw
  /\ sampler.result.card.set = sampler.setCodes[2]
  /\ sampler.randomPage > 1

\* C5: with an empty selection the call throws, returns no card and sends no
\* request; when page 1 reports total_cards = 0 it throws, returns no card and
\* has sent the request for page 1 only.
C5_EmptyPoolFailsWithoutFurtherRequest ==
  sampler.pc = "done" =>
    /\ Len(sampler.setCodes) = 0 =>
         /\ sampler.result.threw
         /\ sampler.result.card = NoCard
         /\ SamplerRequests = <<>>
    /\ (sampler.fetched >= 1 /\ sampler.firstPage.total_cards = 0) =>
         /\ sampler.result.threw
         /\ sampler.result.card = NoCard
         /\ Len(SamplerRequests) = 1
         /\ SamplerRequests[1].page = 1

\* C5 witness: a non-empty selection whose page 1 reported no card.
C5_Witness ==
  /\ sampler.pc = "done"
  /\ Len(sampler.setCodes) > 0
  /\ sampler.fetched = 1
  /\ sampler.firstPage.total_cards = 0
  /\ sampler.result.threw

CardsOfSets(codes) == {c \in Range(AllCards) : c.set \in codes}

CardsMatching(q) == {c \in Range(AllCards) : QueryMatches(q, c)}

\* C6: the query built for a selection matches exactly the cards of the
\* selected sets (none for the empty selection), and a search with the empty
\* selection yields total_cards = 0 and an empty page.
C6_QueryMatchesUnionOfSets ==
  /\ CardsMatching(buildMultipleSetQuery(search.setCodes))
       = CardsOfSets(Range(search.setCodes))
  /\ Len(search.setCodes) = 0 =>
       CardsMatching(buildMultipleSetQuery(search.setCodes)) = {}
  /\ (search.pc = "done" /\ Len(search.setCodes) = 0) =>
       /\ ~search.result.threw
       /\ search.result.value.total_cards = 0
       /\ search.result.value.data = <<>>
  /\ (search.pc = "done" /\ ~search.result.threw) =>
       Range(search.result.value.data) \subseteq CardsOfSets(Range(search.setCodes))

\* C6 witness: a search over two sets with cards has listed their union.
C6_Witness ==
  /\ search.pc = "done"
  /\ Len(search.setCodes) = 2
  /\ ~search.result.threw
  /\ search.result.value.total_cards = Len(AllCards)

\* The normal form the specification describes, computed word by word:
\* lowercase, drop what is not a-z, 0-9 or whitespace, split at whitespace,
\* join the non-empty words with one space.
RECURSIVE WordsOf(_, _)
WordsOf(s, cur) ==
  IF s = <<>> THEN (IF cur = <<>> THEN <<>> ELSE <<cur>>)
  ELSE LET ch == CharToLower(Head(s))
       IN IF ch \in Whitespace
          THEN (IF cur = <<>> THEN <<>> ELSE <<cur>>) \o WordsOf(Tail(s), <<>>)
          ELSE IF ch \in AsciiLower \cup Digits
               THEN WordsOf(Tail(s), Append(cur, ch))
               ELSE WordsOf(Tail(s), cur)

RECURSIVE JoinWords(_)
JoinWords(ws) ==
  IF ws = <<>> THEN <<>>
  ELSE IF Len(ws) = 1 THEN ws[1]
  ELSE ws[1] \o <<" ">> \o JoinWords(Tail(ws))

NormalForm(s) == JoinWords(WordsOf(s, <<>>))

IsLetterDigitOrSpace(ch) ==
  CharToLower(ch) \in AsciiLower \cup Digits \cup Whitespace

\* The text without its punctuation.
StripPunctuation(s) == SelectSeq(s, IsLetterDigitOrSpace)

\* The text with every whitespace doubled and whitespace added at both ends.
RECURSIVE DoubleSpaces(_)
DoubleSpaces(s) ==
  IF s = <<>> THEN <<>>
  ELSE IF Head(s) \in Whitespace
       THEN <<Head(s), "\t">> \o DoubleSpaces(Tail(s))
       ELSE <<Head(s)>> \o DoubleSpaces(Tail(s))

PadWhitespace(s) == <<" ">> \o DoubleSpaces(s) \o <<"\t", " ">>

\* C7: cardNamesMatch(g, c) holds iff the normalized forms are equal, the
\* normalized form is the one the specification describes, and matching is
\* reflexive, symmetric, insensitive to case, punctuation and extra
\* whitespace; normalization is idempotent.
C7_MatchIffNormalFormsEqual ==
  matcher.pc = "done" =>
    LET g == matcher.guess
        c == matcher.correctName
    IN /\ matcher.isMatch = (matcher.normalizedGuess = matcher.normalizedCorrect)
       /\ matcher.normalizedGuess = NormalForm(g)
       /\ matcher.normalizedCorrect = NormalForm(c)
       /\ matcher.isMatch = (NormalForm(g) = NormalForm(c))
       /\ cardNamesMatch(g, g)
       /\ cardNamesMatch(c, g) = matcher.isMatch
       /\ cardNamesMatch(toUpperCase(g), c) = matcher.isMatch
       /\ cardNamesMatch(toLowerCase(g), c) = matcher.isMatch
       /\ cardNamesMatch(StripPunctuation(g), c) = matcher.isMatch
       /\ cardNamesMatch(PadWhitespace(g), c) = matcher.isMatch
       /\ normalizeCardName(matcher.normalizedGuess) = matcher.normalizedGuess

\* C7 witness: a typed text that differs from the card name in case,
\* punctuation and whitespace has matched it.
C7_Witness ==
  /\ matcher.pc = "done"
  /\ matcher.isMatch
  /\ matcher.guess # matcher.correctName
  /\ matcher.guess # toLowerCase(matcher.correctName)
  /\ \E i \in DOMAIN matcher.guess : matcher.guess[i] \in Whitespace

OptionTexts == {mc.options[i].text : i \in DOMAIN mc.options}

\* C1: whatever the page fetch yields, generateMultipleChoiceOptions resolves
\* with exactly 4 options, exactly one of them correct and carrying the
\* correct card's name, the 4 texts pairwise distinct.
C1_FourDistinctOptionsOneCorrect ==
  mc.pc = "done" =>
    /\ ~mc.rejected
    /\ Len(mc.options) = 4
    /\ Cardinality({i \in DOMAIN mc.options : mc.options[i].isCorrect}) = 1
    /\ \A i \in DOMAIN mc.options :
         mc.options[i].isCorrect => mc.options[i].text = mc.correctCard.name
    /\ \A i, j \in DOMAIN mc.options :
         i # j => mc.options[i].text # mc.options[j].text

\* C1 witness: the correct card bears a fallback name, the page listed it
\* twice among other cards, and the options have been returned.
C1_Witness ==
  /\ mc.pc = "done"
  /\ mc.correctCard.name = LightningBolt
  /\ Cardinality({i \in DOMAIN mc.availableCards :
                    mc.availableCards[i].name = mc.correctCard.name}) = 2
  /\ Len(mc.availableCards) = 3
  /\ Counterspell \in OptionTexts

\* ------------------------------------------------------------ the game (C2, C3, C8, C9)

\* A step that resolves the round of the card on screen.
Resolution ==
  /\ gameState.currentCard # NoCard
  /\ ~gameState.isGuessSubmitted
  /\ gameState'.isGuessSubmitted

\* The answer recorded by the step names the card that was on screen.
AnsweredCorrectly ==
  cardNamesMatch(gameState'.lastGuess, gameState.currentCard.name)

\* C2: every resolution of an Active round adds exactly 1 to totalGuesses; a
\* correct answer (typed or clicked) adds 1 to score and to streak; a wrong
\* answer or a skip leaves score as it is and sets streak to 0.
C2_ResolutionCounts ==
  [][Resolution =>
       /\ gameState'.totalGuesses = gameState.totalGuesses + 1
       /\ gameState'.isCorrectGuess = IsCorrectValue(AnsweredCorrectly)
       /\ IF AnsweredCorrectly
          THEN /\ gameState'.score = gameState.score + 1
               /\ gameState'.streak = gameState.streak + 1
          ELSE /\ gameState'.score = gameState.score
               /\ gameState'.streak = 0]_vars

\* A wrong answer has been given after a correct one: the streak is lost,
\* the score is kept.
C2_Witness ==
  /\ isGameActive
  /\ gameState.isGuessSubmitted
  /\ gameState.isCorrectGuess = IsCorrectValue(FALSE)
  /\ gameState.lastGuess # <<>>
  /\ gameState.score = 1
  /\ gameState.streak = 0
  /\ gameState.totalGuesses = 2

\* C3: once a round is Answered, no step changes isCorrectGuess, lastGuess,
\* score, streak or totalGuesses while the same card stays Answered, that
\* is until the next card is drawn.
C3_ResolvedOnce ==
  [][( /\ gameState.currentCard # NoCard
       /\ gameState.isGuessSubmitted
       /\ gameState'.isGuessSubmitted
       /\ gameState'.currentCard = gameState.currentCard )
     => /\ gameState'.isCorrectGuess = gameState.isCorrectGuess
        /\ gameState'.lastGuess = gameState.lastGuess
        /\ gameState'.score = gameState.score
        /\ gameState'.streak = gameState.streak
        /\ gameState'.totalGuesses = gameState.totalGuesses]_vars

\* An Answered round in a text mode with a guess still typed in and
\* guesses left: a second submit or a skip would count, were it offered.
C3_Witness ==
  /\ ShowsCard
  /\ gameState.isGuessSubmitted
  /\ inputMode # "multiplechoice"
  /\ trim(guessInput) # <<>>
  /\ gameState.totalGuesses < MaxGuesses

\* C8: a skip records isCorrectGuess = false, lastGuess = "" and
\* selectedChoice = null, sets streak to 0 and leaves score unchanged,
\* whatever was typed or selected before.
C8_SkipRecordsMiss ==
  [][skipCard =>
       /\ gameState'.isGuessSubmitted
       /\ gameState'.isCorrectGuess = IsCorrectValue(FALSE)
       /\ gameState'.lastGuess = <<>>
       /\ gameState'.selectedChoice = NullChoice
       /\ selectedChoice' = NullChoice
       /\ gameState'.streak = 0
       /\ gameState'.score = gameState.score]_vars

\* A round skipped with a text typed in, after a correct answer had built a
\* streak.
C8_Witness ==
  /\ isGameActive
  /\ gameState.isGuessSubmitted
  /\ gameState.isCorrectGuess = IsCorrectValue(FALSE)
  /\ gameState.lastGuess = <<>>
  /\ trim(guessInput) # <<>>
  /\ gameState.score = 1
  /\ gameState.streak = 0

\* C9: the reset sets score, streak and totalGuesses to 0, clears the round,
\* and is Loading a card for the selection it was called with; the selected
\* sets, in memory and in the persisted snapshot, are unchanged.
C9_ResetKeepsSelection ==
  [][resetScores =>
       /\ gameState'.score = 0
       /\ gameState'.streak = 0
       /\ gameState'.totalGuesses = 0
       /\ gameState'.currentCard = NoCard
       /\ ~gameState'.isGuessSubmitted
       /\ gameState'.lastGuess = <<>>
       /\ gameState'.isCorrectGuess = IsCorrectNull
       /\ gameState'.multipleChoiceOptions = <<>>
       /\ guessInput' = <<>>
       /\ gameState'.isLoading
       /\ loading'.active
       /\ loading'.setCodes = selectedSets
       /\ selectedSets' = selectedSets
       /\ loadGameState(storage').selectedSets
            = loadGameState(storage).selectedSets
       /\ loadGameState(storage').score = 0
       /\ loadGameState(storage').streak = 0
       /\ loadGameState(storage').totalGuesses = 0
       /\ loadGameState(storage').currentCard = NoCard]_vars

\* A reset game: loading, nothing on screen, the counters at 0, and the
\* persisted snapshot still holding the selection (only resetGameScores
\* leaves the snapshot inactive while the game is on screen).
C9_Witness ==
  /\ isGameActive
  /\ gameState.isLoading
  /\ loading.active
  /\ gameState.currentCard = NoCard
  /\ gameState.totalGuesses = 0
  /\ ~loadGameState(storage).isGameActive
  /\ Len(selectedSets) = 2
  /\ loadGameState(storage).selectedSets = selectedSets

\* ------------------------------------------------------ the name cache (C10)

\* The cache keys under which names are held.
KeysHoldingNames ==
  {key \in DOMAIN cardNamesCache : Len(cardNamesCache[key]) > 0}

\* C10: after any sequence of suggest calls the name cache holds names for at
\* most one cache key, the entry built for a new key having discarded the
\* names cached for the key before.
C10_CacheHoldsOneKey == Cardinality(KeysHoldingNames) <= 1


\* ------------------------------------------- scoped suggestions (C11 - C14, C19)

\* The names of the cards of a selection.
NamesOfSets(setCodes) == {c.name : c \in CardsOfSets(Range(setCodes))}

\* The text matches a name: the name holds it, case ignored.
MatchesName(query, name) == includes(toLowerCase(name), toLowerCase(query))

\* Call c has returned for a selection none of whose names the text matches,
\* while names the text matches are cached under the key of another selection.
AskedAfterSwitch(c) ==
  /\ suggest[c].pc = "done"
  /\ Len(suggest[c].query) >= 2
  /\ Len(suggest[c].setCodes) > 0
  /\ \A n \in NamesOfSets(suggest[c].setCodes) : ~MatchesName(suggest[c].query, n)
  /\ \E key \in DOMAIN cardNamesCache \ {suggest[c].currentCacheKey} :
       \E i \in DOMAIN cardNamesCache[key] : MatchesName(suggest[c].query, cardNamesCache[key][i])

\* C11 as stated: after suggestions have been served for a selection {a}, a
\* call for a selection {b} with a text that matches only a name of {a}
\* returns the empty list.
C11_SwitchReturnsEmpty ==
  \A c \in Callers : AskedAfterSwitch(c) => suggest[c].result = <<>>

\* C11: after suggestions have been served for a selection {a}, a call for a
\* selection {b} with a text that matches only a name of {a} returns the empty
\* list whenever it is answered from the cache built for {b}; when the lookup
\* for {b} fails or finds no card, the call returns what the global
\* suggestion endpoint returned.
C11_SwitchReturnsEmptyFromCache ==
  \A c \in Callers :
    AskedAfterSwitch(c) =>
      /\ suggest[c].served = "cache" => suggest[c].result = <<>>
      /\ suggest[c].served # "cache" =>
           \E outcome \in AutocompleteOutcomes(suggest[c].query) :
             suggest[c].result = getCardNameAutocomplete(suggest[c].query, outcome).names

C11_Witness ==
  \E c \in Callers :
    /\ AskedAfterSwitch(c)
    /\ suggest[c].served = "cache"
    /\ suggest[c].setCodes = <<"dmu">>
    /\ suggest[c].result = <<>>

\* C12 as stated: the call never rejects; if any step of the scoped lookup
\* failed it returns the result of the global suggestion endpoint, and the
\* empty list if that request failed too.
C12_AnyFailureFallsBackToGlobal ==
  \A c \in Callers :
    suggest[c].pc = "done" =>
      /\ suggest[c].served # "rejected"
      /\ suggest[c].failedPage # 0 => suggest[c].served \in {"global", "empty"}
      /\ suggest[c].served = "empty" => suggest[c].result = <<>>

\* C12: the call never rejects.  If the fetch of the first page fails it
\* returns the result of the global suggestion endpoint, and the empty list
\* if that request fails too; if the fetch of a later page fails it answers
\* from the names of the pages fetched before.
C12_NeverRejects ==
  \A c \in Callers :
    /\ suggest[c].served # "rejected"
    /\ suggest[c].pc = "done" =>
         /\ suggest[c].failedPage = 1 =>
              /\ suggest[c].served \in {"global", "empty"}
              /\ suggest[c].served = "empty" => suggest[c].result = <<>>
              /\ \E outcome \in AutocompleteOutcomes(suggest[c].query) :
                   suggest[c].result = outcome.data
         /\ suggest[c].failedPage > 1 =>
              /\ suggest[c].served = "cache"
              /\ suggest[c].allCardNames # {}
              /\ suggest[c].result = matchingNames(SortNames(suggest[c].allCardNames), suggest[c].query)

C12_Witness ==
  \E c, d \in Callers :
    /\ suggest[c].pc = "done" /\ suggest[c].failedPage = 1 /\ suggest[c].served = "empty"
    /\ suggest[d].pc = "done" /\ suggest[d].failedPage = 2 /\ suggest[d].served = "cache"

\* C13: the list returned by getCardNameAutocompleteFromSets has at most 8
\* names on every path: cache hit, cache rebuild, pool with zero results, and
\* fallback to the global suggestion endpoint.
C13_AtMostEightNames ==
  \A c \in Callers : Len(suggest[c].result) <= SuggestionLimit

\* The cached names that hold the text of the call, case ignored.
MatchingCached ==
  {filterCall.cached[i] : i \in {k \in DOMAIN filterCall.cached : MatchesName(filterCall.query, filterCall.cached[k])}}

StartsWithQuery(name) == startsWith(toLowerCase(name), toLowerCase(filterCall.query))

\* a comes before b in the order of the suggestions: names that start with
\* the text first, and the locale's order within either group.
ComesBefore(a, b) ==
  \/ StartsWithQuery(a) /\ ~StartsWithQuery(b)
  \/ StartsWithQuery(a) = StartsWithQuery(b) /\ localeCompare(a, b) < 0

\* C14: when suggestions are served from the cache, every returned name holds
\* the text as a case-insensitive substring, every returned name that starts
\* with the text precedes every returned name that only holds it, the names
\* within each of the two groups are in lexical order, and the result is the
\* first 8 names of that ordering over all matching cached names.
C14_ServedNamesOrdered ==
  filterCall.pc = "done" =>
    LET result == filterCall.result
    IN /\ \A i \in DOMAIN result : MatchesName(filterCall.query, result[i])
       /\ \A i, j \in DOMAIN result :
            i < j /\ StartsWithQuery(result[j]) => StartsWithQuery(result[i])
       /\ \A i, j \in DOMAIN result :
            i < j /\ StartsWithQuery(result[i]) = StartsWithQuery(result[j])
              => localeCompare(result[i], result[j]) < 0
       /\ Range(result) \subseteq MatchingCached
       /\ Len(result) = Min(SuggestionLimit, Cardinality(MatchingCached))
       /\ \A i \in DOMAIN result :
            \A n \in MatchingCached \ Range(result) : ComesBefore(result[i], n)

C14_Witness ==
  /\ filterCall.pc = "done"
  /\ Cardinality(MatchingCached) > SuggestionLimit
  /\ Len(filterCall.result) = SuggestionLimit
  /\ \E i, j \in DOMAIN filterCall.result :
       /\ StartsWithQuery(filterCall.result[i])
       /\ ~StartsWithQuery(filterCall.result[j])
  /\ \E n \in MatchingCached : n \notin Range(filterCall.result)
  /\ \E i \in DOMAIN filterCall.result :
       i < Len(filterCall.result) /\ LessString(filterCall.result[i + 1], filterCall.result[i])

\* ------------------------------------------------ errors (C15, C16)

\* The call was answered with a non-success status.
AnsweredNotOk == httpCall.pc = "done" /\ httpCall.outcome.kind \in {"response", "unparsable"} /\ ~httpCall.outcome.ok

\* The error carries the status, code and details of the body.
CarriesBody(err, body) == err.status = body.status /\ err.code = body.code /\ err.details = body.details

C15_ServiceErrorReachesCallers ==
  /\ (search.pc = "done" /\ search.outcome.error.object = "error") =>
       search.result.threw /\ CarriesBody(search.result.error, search.outcome.error)
  /\ (sampler.pc = "done" /\ sampler.outcome.error.object = "error") =>
       sampler.result.threw /\ CarriesBody(sampler.result.error, sampler.outcome.error)

\* ------------------------------------------------ the request delay (C17)

\* C17: any two outbound requests to the remote service are separated by at
\* least the fixed request delay, also when they are issued by operations
\* that overlap.
C17_RequestsSeparatedByDelay ==
  \A i, j \in DOMAIN sent :
    i < j => sent[j].at - sent[i].at >= REQUEST_DELAY

\* ------------------------------------------------ loadGameState (C18)

\* The store gives loadGameState no data of the current version.
NothingToRestore(item) ==
  \/ ~item.available
  \/ ~item.present
  \/ ~item.parsable
  \/ ~item.hasData
  \/ item.version = ""
  \/ item.version # STORAGE_VERSION

\* C18: loadGameState returns exactly the default snapshot, with no field
\* taken from the stored data, whenever the stored version differs from the
\* current one, the stored wrapper lacks its data or version, the stored text
\* cannot be parsed, nothing is stored, or the store is unavailable.
C18_DefaultsWhenNothingToRestore ==
  (loadCall.pc = "done" /\ NothingToRestore(loadCall.item)) =>
    loadCall.result = DEFAULT_PERSISTED_STATE

C18_Witness ==
  /\ loadCall.pc = "done"
  /\ loadCall.item.available /\ loadCall.item.present /\ loadCall.item.parsable
  /\ loadCall.item.hasData
  /\ loadCall.item.version = "2.0"
  /\ loadCall.item.data.score = 1
  /\ loadCall.item.data.selectedSets = <<"neo", "dmu">>
  /\ loadCall.result = DEFAULT_PERSISTED_STATE

\* ------------------------------------------------ overlapping suggest calls (C19)

\* The set codes joined in a cache key.
KeyCodes(key) == SelectSeq(key, LAMBDA t : t # ",")

\* A rebuild for one key awaits a page while the cache's current key is
\* another one, whose call has answered from the cache.
RebuildOvertaken(c, d) ==
  /\ suggest[c].pc \in {"page2", "page3"}
  /\ suggest[d].pc = "done"
  /\ suggest[d].served = "cache"
  /\ suggest[d].currentCacheKey # suggest[c].currentCacheKey
  /\ cacheKey = suggest[d].currentCacheKey

\* C19: under every interleaving of overlapping suggest calls for different
\* selections, in every reachable state the names stored under the cache's
\* current key (and under every other key) are names of cards of that key's
\* selection, and every call that answers from the cache returns only names
\* of its own selection.
C19_CacheNamesBelongToKey ==
  /\ \A key \in DOMAIN cardNamesCache :
       Range(cardNamesCache[key]) \subseteq NamesOfSets(KeyCodes(key))
  /\ cacheKey # <<>> => cacheKey \in DOMAIN cardNamesCache
  /\ \A c \in Callers :
       (suggest[c].pc = "done" /\ suggest[c].served = "cache") =>
         Range(suggest[c].result) \subseteq NamesOfSets(suggest[c].setCodes)

C19_Witness ==
  \E c, d \in Callers :
    /\ RebuildOvertaken(c, d)
    /\ suggest[c].allCardNames # {}
    /\ suggest[d].result # <<>>
    /\ suggest[c].currentCacheKey \notin DOMAIN cardNamesCache

\* ------------------------------------------------ options and the card (C20)

\* The options on screen that are marked correct.
CorrectOptions ==
  {i \in DOMAIN gameState.multipleChoiceOptions : gameState.multipleChoiceOptions[i].isCorrect}

\* A round is open in multiple-choice mode with options to choose from.
ActiveWithOptions ==
  /\ ShowsInput
  /\ inputMode = "multiplechoice"
  /\ Len(gameState.multipleChoiceOptions) > 0

\* C20: whenever a round is active in multiple-choice mode with a non-empty
\* option list, the list holds exactly one option marked correct and the text
\* of that option is the name of the current card, also when a regeneration
\* of the options is in flight while a new card is loaded.
C20_CorrectOptionNamesCurrentCard ==
  ActiveWithOptions =>
    /\ Cardinality(CorrectOptions) = 1
    /\ \A i \in CorrectOptions :
         gameState.multipleChoiceOptions[i].text = gameState.currentCard.name

\* C21: in every state reachable from a fresh session by submit, option
\* click, skip, next card, failed load and reset, the counters satisfy
\* 0 <= streak <= score <= totalGuesses.
C21_CountersOrdered ==
  /\ 0 <= gameState.streak
  /\ gameState.streak <= gameState.score
  /\ gameState.score <= gameState.totalGuesses

\* A correct answer followed by a miss: the three counters differ.
C21_Witness ==
  /\ isGameActive
  /\ gameState.streak = 0 /\ gameState.score = 1
  /\ gameState.totalGuesses = 2

\* A step in which the awaits of loadNewCard settle on the mounted component.
LoadSettlesStep == loading.active /\ ~loading'.active /\ isGameActive'

\* A step in which loadNewCard is called from the view without a card.
RetryStep == ShowsNoCard /\ ~loading.active /\ loading'.active

\* C22: when the sampling of loadNewCard fails, the round leaves Loading for
\* the no-card state (isLoading false, currentCard null) with score, streak
\* and totalGuesses unchanged; a settled load never leaves the round in
\* Loading and shows either no card or a fresh round on a card of the sets
\* sampled; a retry from the no-card state samples again from the selected
\* sets.
C22_FailedLoadShowsNoCard ==
  [][/\ LoadSettlesStep =>
          /\ ~gameState'.isLoading
          /\ gameState'.score = gameState.score
          /\ gameState'.streak = gameState.streak
          /\ gameState'.totalGuesses = gameState.totalGuesses
          /\ IF gameState'.currentCard = NoCard
             THEN ShowsNoCard'
             ELSE /\ gameState'.currentCard.set \in Range(loading.setCodes)
                  /\ ~gameState'.isGuessSubmitted
                  /\ gameState'.isCorrectGuess = IsCorrectNull
     /\ gameState'.isLoading => loading'.active
     /\ RetryStep =>
          /\ gameState'.isLoading
          /\ loading'.setCodes = selectedSets
    ]_vars

\* A load has failed after an answer was counted: no card is shown, nothing
\* is loading and the counters are still there.
C22_Witness ==
  /\ ShowsNoCard
  /\ ~loading.active
  /\ gameState.score = 1 /\ gameState.streak = 1
  /\ gameState.totalGuesses = 1

\* Math.ceil(total / size) for size > 0: the least n with n * size >= total.
CeilingOfQuotient(total, size) ==
  CHOOSE n \in 0..total : n * size >= total /\ (n = 0 \/ (n - 1) * size < total)

\* C23: for every first page with total_cards > 0 the page requested second
\* is an integer p with 1 <= p <= ceil(total_cards / pageSize), pageSize the
\* number of items on page 1, and a card that is returned is an element of
\* the items of page p.
C23_RandomPageWithinTotalPages ==
  (sampler.fetched >= 1 /\ sampler.firstPage.total_cards > 0) =>
    LET pageSize == Len(sampler.firstPage.data)
        totalPages == CeilingOfQuotient(sampler.firstPage.total_cards, pageSize)
        q == buildMultipleSetQuery(sampler.setCodes)
    IN /\ pageSize > 0
       /\ sampler.pc \in {"page2", "done"}
       /\ sampler.randomPage \in 1..totalPages
       /\ SelectSeq(requests, LAMBDA r : r.by = "getRandomCardFromSets") =
            <<Request("getRandomCardFromSets", q, 1),
              Request("getRandomCardFromSets", q, sampler.randomPage)>>
       /\ (sampler.pc = "done" /\ ~sampler.result.threw) =>
            /\ sampler.fetched = 2
            /\ sampler.randomPageResponse = ListPage(q, sampler.randomPage)
            /\ \E i \in DOMAIN sampler.randomPageResponse.data :
                 sampler.result.card = sampler.randomPageResponse.data[i]

\* Five cards in pages of two: the third and last page was drawn and its only
\* card returned.
C23_Witness ==
  /\ sampler.pc = "done" /\ ~sampler.result.threw
  /\ sampler.firstPage.total_cards = 5
  /\ Len(sampler.firstPage.data) = 2
  /\ sampler.randomPage = 3
  /\ sampler.randomPageResponse.data = <<sampler.result.card>>

\* C24: whenever a round is active, the set code of the current card is one
\* of the currently selected sets, after any sequence of start game, back to
\* setup, change of the selection and start game again, the round being
\* restored from the saved progress when the game view mounts.
C24_CurrentCardOfSelectedSets ==
  (isGameActive /\ isStateRestored /\ gameState.currentCard # NoCard) =>
    gameState.currentCard.set \in Range(selectedSets)

\* A step in which an option of the round is clicked and scored.
OptionClicked ==
  /\ ShowsChoices
  /\ ~gameState.isGuessSubmitted /\ gameState'.isGuessSubmitted
  /\ gameState'.selectedChoice # NullChoice

\* C25: in multiple-choice mode a click on an option whose isCorrect flag is
\* false is never scored as correct and a click on the option whose flag is
\* true is always scored as correct, whatever pool the distractors were drawn
\* from.
C25_FlagDecidesScore ==
  [][OptionClicked =>
       \A i \in DOMAIN gameState.multipleChoiceOptions :
          gameState.multipleChoiceOptions[i].text = gameState'.selectedChoice =>
            /\ gameState.multipleChoiceOptions[i].isCorrect <=>
                 gameState'.isCorrectGuess = IsCorrectValue(TRUE)
            /\ gameState.multipleChoiceOptions[i].isCorrect <=>
                 gameState'.score = gameState.score + 1
    ]_vars

\* A step in which the fetch of a page of call c's rebuild fails.
RebuildFetchFails(c) ==
  /\ suggest[c].pc \in {"page1", "page2", "page3"}
  /\ suggest'[c].failedPage # 0

\* A step in which the global endpoint answers call c after a failed fetch.
FallbackSettles(c) ==
  /\ suggest[c].pc = "global" /\ suggest[c].failedPage # 0
  /\ suggest'[c].pc = "done"

\* C26 as stated: if any page fetch of a cache rebuild fails, the call turns
\* to the global endpoint and returns its suggestions, and the failed rebuild
\* writes no cache entry and leaves the cache's current key as it was.
C26_FailedRebuildLeavesCache ==
  [][\A c \in Callers :
       /\ RebuildFetchFails(c) =>
            /\ suggest'[c].pc = "global"
            /\ cardNamesCache' = cardNamesCache
            /\ cacheKey' = cacheKey
       /\ FallbackSettles(c) =>
            /\ cardNamesCache' = cardNamesCache
            /\ cacheKey' = cacheKey
            /\ suggest'[c].served \in {"global", "empty"}
    ]_vars

\* C26: if the fetch of page 1 of a cache rebuild fails, the call returns
\* the suggestions of the global endpoint (none if that fails too), and the
\* rebuild writes no cache entry and leaves the current key as it was; if the
\* fetch of page 2 or 3 fails, the rebuild stores the sorted names of the
\* pages fetched before under the key of the call, makes that key the current
\* one and the call answers from that entry.
C26_FirstPageFailureLeavesCache ==
  [][\A c \in Callers :
       /\ RebuildFetchFails(c) =>
            IF suggest'[c].failedPage = 1
            THEN /\ suggest'[c].pc = "global"
                 /\ cardNamesCache' = cardNamesCache
                 /\ cacheKey' = cacheKey
            ELSE LET key == suggest[c].currentCacheKey
                 IN /\ suggest'[c].pc = "done"
                    /\ suggest'[c].served = "cache"
                    /\ cacheKey' = key
                    /\ DOMAIN cardNamesCache' = DOMAIN cardNamesCache \cup {key}
                    /\ cardNamesCache'[key] = SortNames(suggest[c].allCardNames)
                    /\ \A k \in DOMAIN cardNamesCache \ {key} :
                         cardNamesCache'[k] = cardNamesCache[k]
                    /\ suggest'[c].result =
                         matchingNames(cardNamesCache'[key], suggest[c].query)
       /\ FallbackSettles(c) =>
            /\ cardNamesCache' = cardNamesCache
            /\ cacheKey' = cacheKey
            /\ suggest'[c].served \in {"global", "empty"}
            /\ suggest'[c].served = "empty" => suggest'[c].result = <<>>
    ]_vars

\* One call's rebuild lost page 3 and its three names of pages 1 and 2 are
\* cached under the current key; another call's rebuild lost page 1, was
\* answered by the global endpoint and left no entry.
C26_Witness ==
  \E c, d \in Callers :
    /\ suggest[c].pc = "done" /\ suggest[c].failedPage = 3
    /\ cacheKey = suggest[c].currentCacheKey
    /\ cacheKey \in DOMAIN cardNamesCache
    /\ cardNamesCache[cacheKey] = SortNames(suggest[c].allCardNames)
    /\ Cardinality(suggest[c].allCardNames) >= 3
    /\ suggest[d].pc = "done" /\ suggest[d].failedPage = 1
    /\ suggest[d].served = "global"
    /\ suggest[d].currentCacheKey \notin DOMAIN cardNamesCache

\* The page the service lists for the selection of call c.
RebuildPage(c, page) ==
  ListPage(buildMultipleSetQuery(suggest[c].setCodes), page)

\* The names on pages 1..n of the selection of call c.
NamesOnPages(c, n) ==
  UNION {NamesOf(RebuildPage(c, page).data) : page \in 1..n}

\* The list is in ascending order of code units without a name twice.
SortedWithoutDuplicates(names) ==
  \A i \in 1..(Len(names) - 1) : LessString(names[i], names[i + 1])

\* The page call c awaits, 0 when it awaits none.
AwaitedPage(call) ==
  IF call.pc = "page1" THEN 1 ELSE IF call.pc = "page2" THEN 2
  ELSE IF call.pc = "page3" THEN 3 ELSE 0

\* C27: a cache rebuild fetches page 1 first; it fetches page 2 only if page
\* 1 has has_more set and total_cards exceeds the number of results on one
\* page, and page 3 only after page 2 (and only if page 2 has has_more set);
\* it never fetches more than 3 pages; the entry it stores is the sorted,
\* duplicate-free list of the names on the pages it fetched.
C27_RebuildFetchesAtMostThreePages ==
  [][\A c \in Callers :
       LET before == AwaitedPage(suggest[c])
           after == AwaitedPage(suggest'[c])
           key == suggest[c].currentCacheKey
           fetched == IF suggest'[c].failedPage # 0 THEN before - 1 ELSE before
       IN /\ after \in 0..3
          /\ after # before =>
               /\ after \in {0, before + 1}
               /\ after = 1 => suggest[c].pc \in {"idle", "done"}
               /\ after = 2 =>
                    /\ RebuildPage(c, 1).has_more
                    /\ RebuildPage(c, 1).total_cards > Len(RebuildPage(c, 1).data)
               /\ after = 3 => RebuildPage(c, 2).has_more
          /\ (before # 0 /\ suggest'[c].pc = "done") =>
               /\ fetched >= 1
               /\ cardNamesCache'[key] \in Seq(NamesOnPages(c, fetched))
               /\ Range(cardNamesCache'[key]) = NamesOnPages(c, fetched)
               /\ SortedWithoutDuplicates(cardNamesCache'[key])
               /\ suggest'[c].allCardNames = NamesOnPages(c, fetched)
    ]_vars

\* A rebuild has fetched three pages and stored their names, fewer than the
\* cards on the pages since one name is on two of them.
C27_Witness ==
  \E c \in Callers :
    /\ suggest[c].pc = "done" /\ suggest[c].served = "cache"
    /\ suggest[c].failedPage = 0
    /\ cardNamesCache[suggest[c].currentCacheKey] = SortNames(NamesOnPages(c, 3))
    /\ Len(cardNamesCache[suggest[c].currentCacheKey]) <
         Len(RebuildPage(c, 1).data) + Len(RebuildPage(c, 2).data)
           + Len(RebuildPage(c, 3).data)

\* C28: starting from a selection without duplicates, after any sequence of
\* set toggle (select or deselect), remove, clear-all and format-preset
\* actions the selected-sets list holds no set code twice.
C28_SelectionWithoutDuplicates ==
  \A i, j \in DOMAIN selectedSets : i # j => selectedSets[i] # selectedSets[j]

\* Toggles have made the selection longer than any restored one; it ends in
\* the two loaded sets.
C28_Witness ==
  /\ Len(selectedSets) = MaxSets + 1
  /\ AvailableSets \subseteq Range(selectedSets)
  /\ selectedSets[Len(selectedSets)] \in AvailableSets
  /\ selectedSets[Len(selectedSets) - 1] \in AvailableSets

\* A step of the reset action inside an active game: the card of the round
\* is dropped and a new one is being loaded.
ResetStep ==
  /\ isGameActive /\ isGameActive'
  /\ gameState.currentCard # NoCard
  /\ gameState'.currentCard = NoCard
  /\ gameState'.isLoading

\* C29: after the reset action is used inside an active game, the isGameActive
\* flag of the persisted snapshot agrees with the application's in-memory
\* flag (true), so that a reload returns to the game view.
C29_ResetKeepsGameActiveSaved ==
  [][ResetStep =>
       /\ isGameActive'
       /\ loadGameState(storage').isGameActive = isGameActive'
    ]_vars

\* C30: getCardNameAutocompleteFromSets leaves the array of set codes passed
\* by its caller unchanged, the order of its elements included, on every
\* path.
C30_CallerArrayUnchanged ==
  [][selectedSets' = selectedSets]_vars

====
